---- MODULE Spec2Model ----
(***************************************************************************)
(* RecallAi documentation pipeline: the repository orchestrator            *)
(* (RepoOrchestratorService), its checkpoint store (CheckpointService),    *)
(* the chapter loop of RepoDocService, the on-disk index artifacts written *)
(* by RAGIndexService / RAGEngine, and the identifiers job workers derive  *)
(* from the wall clock.                                                    *)
(*                                                                         *)
(* The specifications of the module:                                       *)
(*   Spec        one job worker running the orchestrator on one repo_id    *)
(*   SpecFaulty  one run with a failing checkpoint store and callback      *)
(*   SpecIndex   one index on disk, a writer and a concurrent reader       *)
(*   SpecIds     two job workers started by the HTTP routes                *)
(*   SpecFilter  the file admission loops (GitHub listing, zip archive)    *)
(*   SpecSearch  vectorstore.search                                        *)
(*   SpecQuery   RAGIndexService.query_index                               *)
(*   SpecOutline RepoScanService.scan_repository / _parse_outline          *)
(*   SpecChapter RepoDocService.generate_chapter                           *)
(*   SpecStore   a client of CheckpointService                             *)
(*   SpecDiscover LMStudioEmbedder construction and model detection        *)
(*   SpecEmbed   LMStudioEmbedder.embed_texts and its retries              *)
(*   SpecRag     RAGEngine.query, single call and multi-part               *)
(*   SpecStream  the server-sent-event stream of the bot routes            *)
(*   SpecChunk   chunker.chunk_text                                        *)
(***************************************************************************)
EXTENDS Integers, Sequences, FiniteSets, TLC

(***************************************************************************)
(* Bounds of the model.                                                    *)
(***************************************************************************)
MaxFiles == 6
MaxChapters == 2
MaxRuns == 1
MaxNewChunks == 2
MaxIndexChunks == 4
MaxClock == 2
MaxEntries == 3
MaxEntrySize == 2
MaxBudget == 3
MaxChunks == 2
MaxTopK == 3
MaxQueries == 2
MaxOutline == 3
MaxSaves == 3
MaxCatalog == 2
MaxTexts == 3
MaxSelected == 3
MaxLines == 3
MaxWords == 4
MaxPieces == 2
MaxChunkSize == 3

(***************************************************************************)
(* Optional values: None is the empty set, Some(v) the singleton.          *)
(***************************************************************************)
None == {}
Some(v) == {v}
Get(o) == CHOOSE v \in o : TRUE

VARIABLES
    \* ---- Spec: one orchestrator worker ----
    pc,               \* position of the worker in the handler it runs
    mode,             \* "none" | "github" | "zip": the entry point of the current run
    runs,             \* number of orchestrator runs started so far
    collection,       \* "ok" | "none" (no MongoDB at __init__) | "failing" (calls raise)
    callback,         \* "ok" | "raises": what the status callback does when called
    store,            \* the checkpoint document of this repo_id
    reports,          \* status reports the callback received in the current run
    saved,            \* (status, progress) written to the checkpoint in the current run
    total_files,      \* len(ingestion_result.included_files) / len(repo_files) given
    idx,              \* download loop index (1-based), 0 outside the loop
    repo_files,       \* number of files in the local repo_files list
    chapters,         \* number of chapters of the plan
    chap,             \* chapter loop index (1-based), 0 outside the loop
    chapter_contents, \* chapter_contents of RepoDocService.generate_documentation
    index_path,       \* index_path returned by build_repo_index (optional)
    pdf_url,          \* pdf_url local of the orchestrator (optional)
    result,           \* the dict returned by the run
    error,            \* the exception that ended the run (optional)
    calls,            \* external calls issued in the current run, by kind
    cancelled,        \* the hosting runtime has signalled cancellation
    stopDue,          \* a safe boundary was passed after the signal
    resumed,          \* what resume_generation found in the store when called
    faults,           \* the LLM and PDF failures injected in the current run
    \* ---- SpecIndex: one index on disk ----
    ipc,              \* position of the index writer
    iop,              \* "none" | "build" | "vectorize": the writer's operation
    diskIndex,        \* vectors in the index file (optional: file may be absent)
    diskMeta,         \* entries of the .meta.json sidecar (optional)
    memIndex,         \* the writer's in-memory index (vector count)
    memMeta,          \* the writer's combined metadata list (chunk ids)
    rpc,              \* position of the reader
    seenIndex,        \* vector count the reader loaded
    seenMeta,         \* metadata length the reader loaded
    \* ---- SpecIds: two job workers ----
    clock,            \* int(time.time())
    wpc,              \* position of each worker
    wkind,            \* "github" | "zip" per worker
    wrepo,            \* repository each GitHub worker was asked for
    wid,              \* repo_id each worker uses
    wpath,            \* index path each worker wrote
    cpStore,          \* checkpoint store: (repo_id, worker that wrote it last)
    idxFiles,         \* index directory: (path, worker that wrote it last)
    \* ---- single components (SpecFilter, ...) ----
    filt,             \* the file filter loop: budgets, admitted sizes, warnings
    srch,             \* one call of vectorstore.search and what it returned
    qry,              \* one call of query_index: metadata, queries so far, chunks
    outl,             \* one call of scan_repository: the LLM's outline, the plan
    chapOut,          \* one call of generate_chapter: the chapter, the markdown
    client,           \* a client of CheckpointService: the document, the last get
    emb,              \* an LMStudioEmbedder: its model, one call of embed_texts
    rag,              \* one call of RAGEngine.query: batches, chat calls issued
    sse,              \* one response of the chat endpoint: upstream and emitted frames
    chk               \* one call of chunk_text: the words, the chunks returned

orchVars == <<pc, mode, runs, collection, callback, store, saved, reports, total_files, idx,
              repo_files, chapters, chap, chapter_contents, index_path, pdf_url,
              result, error, calls, cancelled, stopDue, resumed, faults>>
indexVars == <<ipc, iop, diskIndex, diskMeta, memIndex, memMeta,
               rpc, seenIndex, seenMeta>>
idVars == <<clock, wpc, wkind, wrepo, wid, wpath, cpStore, idxFiles>>
compVars == <<filt, srch, qry, outl, chapOut, client>>
moreVars == <<emb, rag, sse, chk>>
vars == <<orchVars, indexVars, idVars, compVars, moreVars>>

(***************************************************************************)
(* Job statuses, in pipeline order.                                        *)
(***************************************************************************)
StatusOrder == <<"pending", "ingesting", "scanning", "indexing", "generating",
                 "merging", "completed">>
Rank(s) == CHOOSE i \in 1..Len(StatusOrder) : StatusOrder[i] = s

(***************************************************************************)
(* Checkpoint documents.                                                   *)
(***************************************************************************)
NoArtifacts == [repo_files |-> None, chapters |-> None, index_path |-> None]

NoDoc == [exists |-> FALSE, status |-> "pending", progress |-> 0,
          completed_steps |-> 0, total_steps |-> 0, error |-> None,
          repo_files |-> None, chapters |-> None, index_path |-> None,
          started_at |-> None, last_updated |-> None]

\* datetime.utcnow(): a datetime object (not a string), stamped with the run r
UtcNow(r) == [type |-> "datetime", at |-> r]

Keep(new, old) == IF new # None THEN new ELSE old

\* seeded fault: started_at in the $set part, so every save stamps it again
SaveCheckpointRestamped(doc, status, progress, completed, total, arts, now) ==
    IF collection # "ok" THEN doc
    ELSE [exists |-> TRUE, status |-> status, progress |-> progress,
          completed_steps |-> completed, total_steps |-> total,
          error |-> None,
          repo_files |-> Keep(arts.repo_files, doc.repo_files),
          chapters |-> Keep(arts.chapters, doc.chapters),
          index_path |-> Keep(arts.index_path, doc.index_path),
          started_at |-> Some(now),
          last_updated |-> Some(now)]

\* update_one({"repo_id": repo_id}, ..., upsert=True): the number of records
\* of the repo_id after the call, from the number n before it
UpdateOneUpsert(n) == IF n = 0 THEN 1 ELSE n

\* delete_one({"repo_id": repo_id})
DeleteOne(n) == IF n = 0 THEN 0 ELSE n - 1

\* CheckpointService.save_checkpoint: upsert; $set of the scalar fields and of
\* the artifacts that are not None; $setOnInsert of started_at
SaveCheckpoint(doc, status, progress, completed, total, arts, now) ==
    IF collection # "ok" THEN doc
    ELSE [exists |-> TRUE, status |-> status, progress |-> progress,
          completed_steps |-> completed, total_steps |-> total,
          error |-> None,
          repo_files |-> Keep(arts.repo_files, doc.repo_files),
          chapters |-> Keep(arts.chapters, doc.chapters),
          index_path |-> Keep(arts.index_path, doc.index_path),
          started_at |-> IF doc.exists THEN doc.started_at ELSE Some(now),
          last_updated |-> Some(now)]

\* CheckpointService.mark_completed: update_one without upsert
MarkCompleted(doc, now) ==
    IF collection # "ok" \/ ~doc.exists THEN doc
    ELSE [doc EXCEPT !.status = "completed", !.progress = 100,
                     !.last_updated = Some(now)]

\* CheckpointService.mark_failed: update_one without upsert
MarkFailed(doc, err, now) ==
    IF collection # "ok" \/ ~doc.exists THEN doc
    ELSE [doc EXCEPT !.status = "failed", !.error = Some(err),
                     !.last_updated = Some(now)]

\* CheckpointService.delete_checkpoint
DeleteCheckpoint(doc) ==
    IF collection # "ok" THEN doc ELSE NoDoc

\* datetime.fromisoformat: accepts a str, raises TypeError on anything else
FromIsoformatRaises(v) == v.type # "str"

\* GenerationCheckpoint.from_dict: converts started_at and last_updated when
\* they are set; TRUE when the conversion raises
FromDictRaises(doc) ==
    \/ doc.started_at # None /\ FromIsoformatRaises(Get(doc.started_at))
    \/ doc.last_updated # None /\ FromIsoformatRaises(Get(doc.last_updated))

\* CheckpointService.get_checkpoint: None without a collection, without a
\* document, and when from_dict raises (the exception is logged and swallowed)
GetCheckpoint(doc) ==
    IF collection # "ok" THEN None
    ELSE IF ~doc.exists THEN None
    ELSE IF FromDictRaises(doc) THEN None
    ELSE Some(doc)

(***************************************************************************)
(* Status reports (RepoOrchestratorService._report_status).                *)
(***************************************************************************)
\* one call of _report_status: what goes to the callback and to the checkpoint
Entry(status, progress, total, completed, arts) ==
    [status |-> status, progress |-> progress, total_steps |-> total,
     completed_steps |-> completed, arts |-> arts]

\* the part of a report the status callback receives
Shown(e) == [status |-> e.status, progress |-> e.progress,
             total_steps |-> e.total_steps, completed_steps |-> e.completed_steps]

\* the calls of the status callback for the reports es; when the callback
\* raises, _report_status catches and logs the exception and goes on
CallbackCalls(es) == [i \in 1..Len(es) |-> Shown(es[i])]

\* the checkpoint after the save_checkpoint calls of the reports es, in order
RECURSIVE SaveAll(_, _, _)
SaveAll(doc, es, now) ==
    IF es = <<>> THEN doc
    ELSE SaveAll(SaveCheckpoint(doc, Head(es).status, Head(es).progress,
                                Head(es).completed_steps, Head(es).total_steps,
                                Head(es).arts, now),
                 Tail(es), now)

\* the writes the save_checkpoint calls of the reports es issue on the
\* collection, when there is one (a failing write raises inside the service)
Written(es) ==
    IF collection = "none" THEN <<>>
    ELSE [i \in 1..Len(es) |-> [status |-> es[i].status, progress |-> es[i].progress]]

\* a report that opens a new phase, or a chapter tick of the generating phase
IsBoundary(prev, e) ==
    \/ prev.status # e.status
    \/ e.status = "generating" /\ e.completed_steps > 3

\* some report added to old to make new is a safe boundary of the run
PassesBoundary(old, new) ==
    \E i \in (Len(old) + 1)..Len(new) : i > 1 /\ IsBoundary(new[i - 1], new[i])

\* _report_status called for each entry of es, after the reports base
ReportStatus(base, doc, es) ==
    LET new == base \o CallbackCalls(es) IN
    /\ reports' = new
    /\ store' = SaveAll(doc, es, UtcNow(runs))
    /\ saved' = saved \o Written(es)
    /\ stopDue' = (stopDue \/ (cancelled /\ PassesBoundary(base, new)))

(***************************************************************************)
(* Progress values computed by the orchestrator.  Python evaluates         *)
(* int((i / n) * m) in floating point; for the sizes of this model (and    *)
(* for every i <= n < 50) it equals the integer floor of i * m / n.        *)
(***************************************************************************)
\* progress during download: 10 + int((idx / total_files) * 10)
DownloadProgress(i, n) == 10 + ((i * 10) \div n)

\* seeded fault: progress computed from the chapters that remain
RemainingChapterProgress(k, n) == 50 + (((n - k) * 40) \div n)

\* the progress_callback lambda of generate_documentation
GithubChapterProgress(k, n) == 50 + ((k * 40) \div n)

\* the progress_callback lambda of generate_documentation_from_files
FilesChapterProgress(k, n) == 40 + ((k * 50) \div n)

ProgressCallback(m, k, n) ==
    IF m = "github" THEN GithubChapterProgress(k, n) ELSE FilesChapterProgress(k, n)

(***************************************************************************)
(* The run's local state.                                                  *)
(***************************************************************************)
NoCalls == [ingest |-> 0, download |-> 0, scan |-> 0, embed |-> 0, llm |-> 0,
            pdf |-> 0]
NoResult == [returned |-> FALSE, markdown |-> <<>>, pdf_url |-> None,
             total_files |-> 0, chapters |-> 0]
NoResume == [called |-> FALSE, indexed |-> FALSE, completed |-> FALSE,
             index_path |-> None, after |-> "idle"]
NoFaults == [llm |-> {}, pdf |-> FALSE]

Idle == {"idle", "done", "failed", "crashed"}
Running == {"ingest", "download", "scan", "index", "chapter_report",
            "chapter_gen", "pdf", "mark", "delete", "complete"}

Called(kind) == calls' = [calls EXCEPT ![kind] = @ + 1]

\* an exception leaves the orchestrator: the run ends, nothing else is done
Raise(err) ==
    /\ pc' = "failed"
    /\ error' = Some(err)

Workers == {1, 2}
Repos == {"acme_tool", "acme_lib"}
NoId == [name |-> "none", t |-> 0]
NoPath == [id |-> NoId, t |-> 0]

\* no listing is being filtered
NoFilter == [kind |-> "none", pc |-> "idle", seen |-> 0, included |-> <<>>,
             total_chars |-> 0, skipped |-> 0, warnings |-> 0, tripped |-> FALSE,
             max_files |-> 0, max_total_chars |-> 0, max_single_file |-> 0]

\* search has not been called
NoSearch == [called |-> FALSE, dists |-> <<>>, top_k |-> 0, threshold |-> 0,
             idxs |-> <<>>]

\* query_index is not running
NoQuery == [pc |-> "idle", metadata |-> <<>>, ntotal |-> 0, top_k |-> 0,
            asked |-> 0, seen_chunk_ids |-> {}, selected_chunks |-> <<>>,
            retrieved |-> <<>>, fallback |-> FALSE, tiers |-> <<>>]

\* scan_repository has not been called
NoOutline == [called |-> FALSE, raised |-> FALSE,
              text |-> [json |-> "none", json_chapters |-> <<>>, headings |-> <<>>],
              chapters |-> <<>>]

\* generate_chapter has not been called
NoChapter == [called |-> FALSE, title |-> "", chunks |-> 0, kind |-> "none",
              heading |-> [level |-> 0, text |-> ""], body |-> "none"]

\* a client of the checkpoint store that has made no call yet
NoClient == [doc |-> NoDoc, saves |-> 0, last |-> "none",
             status |-> "pending", progress |-> 0, latest |-> NoArtifacts,
             got |-> None, records |-> 0, before |-> NoDoc, args |-> None,
             replayed |-> FALSE]

\* an embedder that has not been constructed
NoEmbedder == [pc |-> "new", model |-> None, texts |-> <<>>, i |-> 0,
               attempt |-> 0, retries |-> 0, embeddings |-> <<>>,
               requests |-> 0, sleeps |-> <<>>, payload |-> None,
               checked |-> FALSE, error |-> None, calls |-> 0,
               env |-> None, catalog |-> [status |-> "unreachable", models |-> <<>>]]

\* RAGEngine.query has not been called
NoRag == [pc |-> "idle", multipart |-> FALSE, tokens |-> <<>>, batches |-> <<>>,
          calls |-> <<>>, partial_responses |-> <<>>, streamed |-> "not_started"]

\* the chat endpoint has no response under way
NoStream == [pc |-> "idle", upstream |-> <<>>, out |-> <<>>]

\* chunk_text has not been called
NoChunking == [pc |-> "idle", pieces |-> <<>>, chunk_size |-> 0, overlap |-> 0,
               chunks |-> <<>>]

Init ==
    /\ pc = "idle"
    /\ mode = "none"
    /\ runs = 0
    /\ collection \in {"ok", "none"}
    /\ callback = "ok"
    /\ store = NoDoc
    /\ reports = <<>>
    /\ saved = <<>>
    /\ total_files = 0
    /\ idx = 0
    /\ repo_files = 0
    /\ chapters = 0
    /\ chap = 0
    /\ chapter_contents = <<>>
    /\ index_path = None
    /\ pdf_url = None
    /\ result = NoResult
    /\ error = None
    /\ calls = NoCalls
    /\ cancelled = FALSE
    /\ stopDue = FALSE
    /\ resumed = NoResume
    /\ faults = NoFaults
    /\ ipc = "idle" /\ iop = "none" /\ diskIndex = None /\ diskMeta = None
    /\ memIndex = 0 /\ memMeta = <<>>
    /\ rpc = "idle" /\ seenIndex = 0 /\ seenMeta = 0
    /\ clock = 0
    /\ wpc = [w \in Workers |-> "idle"]
    /\ wkind = [w \in Workers |-> "none"]
    /\ wrepo = [w \in Workers |-> "none"]
    /\ wid = [w \in Workers |-> NoId]
    /\ wpath = [w \in Workers |-> NoPath]
    /\ cpStore = {}
    /\ idxFiles = {}
    /\ filt = NoFilter
    /\ srch = NoSearch
    /\ qry = NoQuery
    /\ outl = NoOutline
    /\ chapOut = NoChapter
    /\ client = NoClient
    /\ emb = NoEmbedder
    /\ rag = NoRag
    /\ sse = NoStream
    /\ chk = NoChunking

(***************************************************************************)
(* RepoOrchestratorService.generate_documentation (GitHub jobs).           *)
(***************************************************************************)
\* the reports at the head of generate_documentation: pending, then ingesting
StartReports ==
    <<Entry("pending", 0, 0, 0, NoArtifacts),
      Entry("ingesting", 5, 0, 0, NoArtifacts)>>

\* generate_documentation is entered: fresh locals, the first two reports
EnterGenerateDocumentation ==
    /\ runs' = runs + 1
    /\ mode' = "github"
    /\ pc' = "ingest"
    /\ total_files' = 0 /\ idx' = 0 /\ repo_files' = 0 /\ chapters' = 0
    /\ chap' = 0 /\ chapter_contents' = <<>> /\ index_path' = None
    /\ pdf_url' = None /\ result' = NoResult /\ error' = None
    /\ calls' = NoCalls /\ cancelled' = FALSE /\ faults' = NoFaults
    /\ stopDue' = FALSE
    /\ reports' = CallbackCalls(StartReports)
    /\ store' = SaveAll(store, StartReports, UtcNow(runs + 1))
    /\ saved' = Written(StartReports)

\* a caller (POST /api/repo/generate) starts generate_documentation
GenerateDocumentation ==
    /\ pc \in Idle
    /\ runs < MaxRuns
    /\ EnterGenerateDocumentation
    /\ resumed' = NoResume
    /\ UNCHANGED <<collection, callback, indexVars, idVars, compVars, moreVars>>

\* the reports after a successful ingestion: result saved, download announced
IngestedReports ==
    <<Entry("ingesting", 5, 0, 0, NoArtifacts),
      Entry("ingesting", 10, 0, 0, NoArtifacts)>>

\* ingest_repository returns (n files admitted) or raises; an empty listing
\* leaves the download loop empty and the run raises "No files could be downloaded"
IngestRepository(ok, n) ==
    /\ pc = "ingest"
    /\ Called("ingest")
    /\ IF ~ok
       THEN /\ Raise("ingest_failed")
            /\ UNCHANGED <<total_files, idx, reports, store, saved, stopDue>>
       ELSE /\ total_files' = n
            /\ ReportStatus(reports, store, IngestedReports)
            /\ IF n = 0
               THEN /\ Raise("no_files")
                    /\ idx' = idx
               ELSE /\ pc' = "download"
                    /\ idx' = 1
                    /\ error' = error
    /\ UNCHANGED <<mode, runs, collection, callback, repo_files, chapters, chap,
                   chapter_contents, index_path, pdf_url, result, cancelled,
                   resumed, faults, indexVars, idVars, compVars, moreVars>>

\* the report inside the download loop, issued after a successful download
\* of file i when i % 5 == 0 or i is the last file
DownloadTick(ok, i, n) ==
    IF ok /\ (i % 5 = 0 \/ i = n)
    THEN <<Entry("ingesting", DownloadProgress(i, n), 0, 0, NoArtifacts)>>
    ELSE <<>>

\* the reports after the download loop: files saved, scanning announced
DownloadedReports(got) ==
    <<Entry("ingesting", 20, 0, 0, [NoArtifacts EXCEPT !.repo_files = Some(got)]),
      Entry("scanning", 20, 0, 0, NoArtifacts)>>

\* one iteration of the download loop; a failed download is logged and skipped.
\* After the last file: raise if nothing was downloaded, else go on to the scan
DownloadFile(ok) ==
    /\ pc = "download"
    /\ Called("download")
    /\ LET got == IF ok THEN repo_files + 1 ELSE repo_files
           tick == DownloadTick(ok, idx, total_files)
       IN /\ repo_files' = got
          /\ IF idx < total_files
             THEN /\ idx' = idx + 1
                  /\ pc' = pc
                  /\ error' = error
                  /\ ReportStatus(reports, store, tick)
             ELSE /\ idx' = 0
                  /\ IF got = 0
                     THEN /\ Raise("no_files")
                          /\ ReportStatus(reports, store, tick)
                     ELSE /\ pc' = "scan"
                          /\ error' = error
                          /\ ReportStatus(reports, store,
                                          tick \o DownloadedReports(got))
    /\ UNCHANGED <<mode, runs, collection, callback, total_files, chapters, chap,
                   chapter_contents, index_path, pdf_url, result, cancelled,
                   resumed, faults, indexVars, idVars, compVars, moreVars>>

\* the reports after the outline: chapters saved, indexing announced
ScanReports(n) ==
    <<Entry("scanning", 30, n + 3, 1, [NoArtifacts EXCEPT !.chapters = Some(n)]),
      Entry("indexing", 35, n + 3, 2, NoArtifacts)>>

\* scan_repository returns a plan of n chapters, or raises ValidationError
ScanRepository(ok, n) ==
    /\ pc = "scan"
    /\ mode = "github"
    /\ Called("scan")
    /\ IF ~ok
       THEN /\ Raise("outline_failed")
            /\ UNCHANGED <<chapters, reports, store, saved, stopDue>>
       ELSE /\ chapters' = n
            /\ pc' = "index"
            /\ error' = error
            /\ ReportStatus(reports, store, ScanReports(n))
    /\ UNCHANGED <<mode, runs, collection, callback, total_files, idx, repo_files, chap,
                   chapter_contents, index_path, pdf_url, result, cancelled,
                   resumed, faults, indexVars, idVars, compVars, moreVars>>

\* the report that opens the merging phase
MergingReport(n) == <<Entry("merging", 90, n + 3, n + 3, NoArtifacts)>>

\* seeded fault: generating is announced before the index is reported as built
IndexedReportsSwapped(n, path) ==
    <<Entry("generating", 50, n + 3, 3, NoArtifacts),
      Entry("indexing", 50, n + 3, 3, [NoArtifacts EXCEPT !.index_path = Some(path)])>>
    \o (IF n = 0 THEN MergingReport(n) ELSE <<>>)

\* the reports after the index build: index_path saved, generating announced;
\* with an empty plan the chapter loop is empty and merging follows at once
IndexedReports(n, path) ==
    <<Entry("indexing", 45, n + 3, 3, [NoArtifacts EXCEPT !.index_path = Some(path)]),
      Entry("generating", 50, n + 3, 3, NoArtifacts)>>
    \o (IF n = 0 THEN MergingReport(n) ELSE <<>>)

\* the index file build_repo_index writes for this repo_id in run r
IndexPathOf(r) == [run |-> r]

\* build_repo_index returns the index path, or raises (an embedding failure is
\* re-raised as RuntimeError; no chunks and a failed build raise as well)
BuildRepoIndex(outcome) ==
    /\ pc = "index"
    /\ mode = "github"
    /\ calls' = [calls EXCEPT !.embed = @ + 1]
    /\ IF outcome # "ok"
       THEN /\ Raise(outcome)
            /\ UNCHANGED <<index_path, chap, reports, store, saved, stopDue>>
       ELSE /\ index_path' = Some(IndexPathOf(runs))
            /\ chap' = IF chapters = 0 THEN 0 ELSE 1
            /\ pc' = IF chapters = 0 THEN "pdf" ELSE "chapter_report"
            /\ error' = error
            /\ ReportStatus(reports, store,
                            IndexedReports(chapters, IndexPathOf(runs)))
    /\ UNCHANGED <<mode, runs, collection, callback, total_files, idx, repo_files,
                   chapters, chapter_contents, pdf_url, result, cancelled,
                   resumed, faults, indexVars, idVars, compVars, moreVars>>

(***************************************************************************)
(* RepoDocService.generate_documentation: the chapter loop.                *)
(***************************************************************************)
\* progress_callback(idx, len(chapters)), called at the top of each iteration
ChapterTick(m, k, n) ==
    <<Entry("generating", ProgressCallback(m, k, n), n + 3, 3 + k, NoArtifacts)>>

\* the top of a loop iteration: the progress callback runs before the chapter
ChapterProgressReport ==
    /\ pc = "chapter_report"
    /\ pc' = "chapter_gen"
    /\ ReportStatus(reports, store, ChapterTick(mode, chap, chapters))
    /\ UNCHANGED <<mode, runs, collection, callback, total_files, idx, repo_files,
                   chapters, chap, chapter_contents, index_path, pdf_url,
                   result, error, calls, cancelled, resumed, faults,
                   indexVars, idVars, compVars, moreVars>>

\* seeded fault: the output is filed under the loop's zero-based position
ChapterOutputZeroBased(title, llm_ok) ==
    [title |-> title - 1, kind |-> IF llm_ok THEN "content" ELSE "stub"]

\* seeded fault: the LLM error is swallowed without a stub
ChapterOutputNoStub(title, llm_ok) == [title |-> title, kind |-> "content"]

\* RepoDocService.generate_chapter: the LLM's markdown, or the error stub
\* "## <title> *Error generating content*" when the LLM call raises
ChapterOutput(title, llm_ok) ==
    [title |-> title, kind |-> IF llm_ok THEN "content" ELSE "stub"]

\* generate_chapter for chapter chap (retrieval, then the LLM call); after the
\* last chapter the markdown is joined and the orchestrator reports merging
GenerateChapter(llm_ok) ==
    /\ pc = "chapter_gen"
    /\ calls' = [calls EXCEPT !.embed = @ + 1, !.llm = @ + 1]
    /\ faults' = IF llm_ok THEN faults
                 ELSE [faults EXCEPT !.llm = @ \cup {chap}]
    /\ chapter_contents' = Append(chapter_contents, ChapterOutput(chap, llm_ok))
    /\ IF chap < chapters
       THEN /\ chap' = chap + 1
            /\ pc' = "chapter_report"
            /\ UNCHANGED <<reports, store, saved, stopDue>>
       ELSE /\ chap' = 0
            /\ pc' = "pdf"
            /\ ReportStatus(reports, store, MergingReport(chapters))
    /\ UNCHANGED <<mode, runs, collection, callback, total_files, idx, repo_files,
                   chapters, index_path, pdf_url, result, error, cancelled,
                   resumed, indexVars, idVars, compVars, moreVars>>

(***************************************************************************)
(* generate_documentation: PDF, checkpoint clean-up, completion.           *)
(***************************************************************************)
\* the pdf_url local after generate_from_markdown returned or raised
PdfUrlAfter(ok) == IF ok THEN Some("/uploads/repo-doc.pdf") ELSE None

\* pdf_generator.generate_from_markdown; a failure is logged, pdf_url = None
GeneratePdf(ok) ==
    /\ pc = "pdf"
    /\ mode = "github"
    /\ Called("pdf")
    /\ faults' = [faults EXCEPT !.pdf = ~ok]
    /\ pdf_url' = PdfUrlAfter(ok)
    /\ pc' = "mark"
    /\ UNCHANGED <<mode, runs, collection, callback, store, saved, reports, total_files, idx,
                   repo_files, chapters, chap, chapter_contents, index_path,
                   result, error, cancelled, stopDue, resumed, indexVars, idVars, compVars, moreVars>>

\* seeded fault: the run is abandoned when mark_completed reports a failure
AfterMarkCompletedStrict(marked) == IF marked THEN "delete" ELSE "failed"

\* mark_completed returns False on any failure and never raises; the
\* orchestrator ignores the value and goes on to delete_checkpoint
AfterMarkCompleted(marked) == "delete"

\* checkpoint_service.mark_completed(repo_id)
MarkCheckpointCompleted ==
    /\ pc = "mark"
    /\ store' = MarkCompleted(store, UtcNow(runs))
    /\ saved' = IF store' = store THEN saved
                ELSE Append(saved, [status |-> store'.status,
                                    progress |-> store'.progress])
    /\ pc' = AfterMarkCompleted(store' # store)
    /\ UNCHANGED <<mode, runs, collection, callback, reports, total_files, idx,
                   repo_files, chapters, chap, chapter_contents, index_path,
                   pdf_url, result, error, calls, cancelled, stopDue, resumed,
                   faults, indexVars, idVars, compVars, moreVars>>

\* checkpoint_service.delete_checkpoint(repo_id)
DeleteCompletedCheckpoint ==
    /\ pc = "delete"
    /\ store' = DeleteCheckpoint(store)
    /\ saved' = saved
    /\ pc' = "complete"
    /\ UNCHANGED <<mode, runs, collection, callback, reports, total_files, idx,
                   repo_files, chapters, chap, chapter_contents, index_path,
                   pdf_url, result, error, calls, cancelled, stopDue, resumed,
                   faults, indexVars, idVars, compVars, moreVars>>

\* the completion report: it goes to the status callback only
CompletedReport == [status |-> "completed", progress |-> 100,
                    total_steps |-> 0, completed_steps |-> 0]

\* repo_info.total_files of the dict generate_documentation returns
GithubTotalFiles == total_files

\* the completion callback and the returned dict of generate_documentation
ReturnResult ==
    /\ pc = "complete"
    /\ mode = "github"
    /\ reports' = Append(reports, CompletedReport)
    /\ result' = [returned |-> TRUE, markdown |-> chapter_contents,
                  pdf_url |-> pdf_url, total_files |-> GithubTotalFiles,
                  chapters |-> chapters]
    /\ pc' = "done"
    /\ UNCHANGED <<mode, runs, collection, callback, store, saved, total_files, idx,
                   repo_files, chapters, chap, chapter_contents, index_path,
                   pdf_url, error, calls, cancelled, stopDue, resumed, faults,
                   indexVars, idVars, compVars, moreVars>>

(***************************************************************************)
(* RepoOrchestratorService.generate_documentation_from_files (archives).   *)
(***************************************************************************)
\* POST /api/generate with extracted archive files (n of them) enters
\* generate_documentation_from_files: pending is reported, an empty file list
\* raises ValidationError, otherwise scanning is announced
GenerateDocumentationFromFiles(n) ==
    /\ pc \in Idle
    /\ runs < MaxRuns
    /\ runs' = runs + 1
    /\ mode' = "zip"
    /\ total_files' = n /\ idx' = 0 /\ repo_files' = n /\ chapters' = 0
    /\ chap' = 0 /\ chapter_contents' = <<>> /\ index_path' = None
    /\ pdf_url' = None /\ result' = NoResult
    /\ calls' = NoCalls /\ cancelled' = FALSE /\ faults' = NoFaults
    /\ stopDue' = FALSE /\ resumed' = NoResume
    /\ LET es == <<Entry("pending", 0, 0, 0, NoArtifacts)>>
                 \o (IF n = 0 THEN <<>>
                     ELSE <<Entry("scanning", 10, 0, 0, NoArtifacts)>>)
       IN /\ reports' = CallbackCalls(es)
          /\ store' = SaveAll(store, es, UtcNow(runs + 1))
          /\ saved' = Written(es)
    /\ IF n = 0
       THEN Raise("no_files")
       ELSE pc' = "scan" /\ error' = None
    /\ UNCHANGED <<collection, callback, indexVars, idVars, compVars, moreVars>>

\* the reports after the outline in generate_documentation_from_files
FilesScanReports(n) ==
    <<Entry("scanning", 20, n + 3, 1, NoArtifacts),
      Entry("indexing", 25, n + 3, 2, NoArtifacts)>>

\* scan_repository in generate_documentation_from_files
ScanFromFiles(ok, n) ==
    /\ pc = "scan"
    /\ mode = "zip"
    /\ Called("scan")
    /\ IF ~ok
       THEN /\ Raise("outline_failed")
            /\ UNCHANGED <<chapters, reports, store, saved, stopDue>>
       ELSE /\ chapters' = n
            /\ pc' = "index"
            /\ error' = error
            /\ ReportStatus(reports, store, FilesScanReports(n))
    /\ UNCHANGED <<mode, runs, collection, callback, total_files, idx, repo_files, chap,
                   chapter_contents, index_path, pdf_url, result, cancelled,
                   resumed, faults, indexVars, idVars, compVars, moreVars>>

\* the reports after the index build in generate_documentation_from_files
FilesIndexedReports(n) ==
    <<Entry("indexing", 35, n + 3, 3, NoArtifacts),
      Entry("generating", 40, n + 3, 3, NoArtifacts)>>
    \o (IF n = 0 THEN MergingReport(n) ELSE <<>>)

\* build_repo_index in generate_documentation_from_files
BuildIndexFromFiles(outcome) ==
    /\ pc = "index"
    /\ mode = "zip"
    /\ calls' = [calls EXCEPT !.embed = @ + 1]
    /\ IF outcome # "ok"
       THEN /\ Raise(outcome)
            /\ UNCHANGED <<index_path, chap, reports, store, saved, stopDue>>
       ELSE /\ index_path' = Some(IndexPathOf(runs))
            /\ chap' = IF chapters = 0 THEN 0 ELSE 1
            /\ pc' = IF chapters = 0 THEN "pdf" ELSE "chapter_report"
            /\ error' = error
            /\ ReportStatus(reports, store, FilesIndexedReports(chapters))
    /\ UNCHANGED <<mode, runs, collection, callback, total_files, idx, repo_files,
                   chapters, chapter_contents, pdf_url, result, cancelled,
                   resumed, faults, indexVars, idVars, compVars, moreVars>>

\* pdf_generator.generate_from_markdown in generate_documentation_from_files;
\* no checkpoint call follows it
GeneratePdfFromFiles(ok) ==
    /\ pc = "pdf"
    /\ mode = "zip"
    /\ Called("pdf")
    /\ faults' = [faults EXCEPT !.pdf = ~ok]
    /\ pdf_url' = PdfUrlAfter(ok)
    /\ pc' = "complete"
    /\ UNCHANGED <<mode, runs, collection, callback, store, saved, reports, total_files, idx,
                   repo_files, chapters, chap, chapter_contents, index_path,
                   result, error, cancelled, stopDue, resumed, indexVars, idVars, compVars, moreVars>>

\* the completion callback and the returned dict of
\* generate_documentation_from_files (total_files = len(repo_files))
ReturnResultFromFiles ==
    /\ pc = "complete"
    /\ mode = "zip"
    /\ reports' = Append(reports, CompletedReport)
    /\ result' = [returned |-> TRUE, markdown |-> chapter_contents,
                  pdf_url |-> pdf_url, total_files |-> repo_files,
                  chapters |-> chapters]
    /\ pc' = "done"
    /\ UNCHANGED <<mode, runs, collection, callback, store, saved, total_files, idx,
                   repo_files, chapters, chap, chapter_contents, index_path,
                   pdf_url, error, calls, cancelled, stopDue, resumed, faults,
                   indexVars, idVars, compVars, moreVars>>

(***************************************************************************)
(* RepoOrchestratorService.resume_generation.                              *)
(***************************************************************************)
\* what the store holds for repo_id when resume_generation is called, and
\* where the job of the repo_id stands (after: done = it has returned)
ResumeSnapshot(doc) ==
    [called |-> TRUE,
     indexed |-> /\ collection = "ok" /\ doc.exists
                 /\ doc.status \in {"indexing", "generating", "merging"}
                 /\ doc.repo_files # None /\ doc.chapters # None
                 /\ doc.index_path # None,
     completed |-> collection = "ok" /\ doc.exists /\ doc.status = "completed",
     index_path |-> doc.index_path,
     after |-> pc]

\* resume_generation raised before doing anything: the call reported nothing,
\* wrote nothing and called no collaborator
RejectedResume ==
    /\ reports' = <<>> /\ saved' = <<>> /\ calls' = NoCalls
    /\ result' = NoResult /\ cancelled' = FALSE /\ stopDue' = FALSE
    /\ faults' = NoFaults
    /\ UNCHANGED <<mode, runs, store, total_files, idx, repo_files, chapters,
                   chap, chapter_contents, index_path, pdf_url>>

\* the ValidationErrors of resume_generation
ResumeErrors == {"no_checkpoint", "already_completed"}

\* seeded fault: resume_generation without its two checks
ResumeVerdictUnchecked(checkpoint) == "restart"

\* the two checks at the head of resume_generation
ResumeVerdict(checkpoint) ==
    IF checkpoint = None THEN "no_checkpoint"
    ELSE IF Get(checkpoint).status = "completed" THEN "already_completed"
    ELSE "restart"

\* resume_generation: no checkpoint -> ValidationError; completed ->
\* ValidationError; otherwise generate_documentation(repo_id, repo_url, title)
ResumeGeneration ==
    /\ pc \in Idle
    /\ resumed' = ResumeSnapshot(store)
    /\ LET verdict == ResumeVerdict(GetCheckpoint(store)) IN
       IF verdict \in ResumeErrors
       THEN /\ Raise(verdict)
            /\ RejectedResume
       ELSE /\ runs < MaxRuns
            /\ EnterGenerateDocumentation
    /\ UNCHANGED <<collection, callback, indexVars, idVars, compVars, moreVars>>

(***************************************************************************)
(* The environment of a run.                                               *)
(***************************************************************************)
\* the worker process dies in the middle of a run; the checkpoint stays
Crash ==
    /\ pc \in Running
    /\ pc' = "crashed"
    /\ UNCHANGED <<mode, runs, collection, callback, store, saved, reports, total_files, idx,
                   repo_files, chapters, chap, chapter_contents, index_path,
                   pdf_url, result, error, calls, cancelled, stopDue, resumed,
                   faults, indexVars, idVars, compVars, moreVars>>

\* the hosting runtime signals cancellation; no code of the orchestrator
\* reads the signal
SignalCancel ==
    /\ pc \in Running
    /\ ~cancelled
    /\ cancelled' = TRUE
    /\ UNCHANGED <<pc, mode, runs, collection, callback, store, saved, reports, total_files, idx,
                   repo_files, chapters, chap, chapter_contents, index_path,
                   pdf_url, result, error, calls, stopDue, resumed, faults,
                   indexVars, idVars, compVars, moreVars>>

IndexOutcomes == {"ok", "embedding_failed", "index_build_failed"}

Next ==
    \/ GenerateDocumentation
    \/ \E ok \in BOOLEAN, n \in 0..MaxFiles : IngestRepository(ok, n)
    \/ \E ok \in BOOLEAN : DownloadFile(ok)
    \/ \E ok \in BOOLEAN, n \in 0..MaxChapters : ScanRepository(ok, n)
    \/ \E o \in IndexOutcomes : BuildRepoIndex(o)
    \/ ChapterProgressReport
    \/ \E ok \in BOOLEAN : GenerateChapter(ok)
    \/ \E ok \in BOOLEAN : GeneratePdf(ok)
    \/ MarkCheckpointCompleted
    \/ DeleteCompletedCheckpoint
    \/ ReturnResult
    \/ \E n \in 0..MaxFiles : GenerateDocumentationFromFiles(n)
    \/ \E ok \in BOOLEAN, n \in 0..MaxChapters : ScanFromFiles(ok, n)
    \/ \E o \in IndexOutcomes : BuildIndexFromFiles(o)
    \/ \E ok \in BOOLEAN : GeneratePdfFromFiles(ok)
    \/ ReturnResultFromFiles
    \/ ResumeGeneration
    \/ Crash
    \/ SignalCancel

Spec == Init /\ [][Next]_vars

(***************************************************************************)
(* Properties of the orchestrator (specification Spec).                    *)
(***************************************************************************)
LastOf(seq) == seq[Len(seq)]

\* a sequence of reports that starts at pending and moves one phase at a time
InPipelineOrder(seq) ==
    /\ Len(seq) > 0 => seq[1].status = "pending"
    /\ \A i \in 1..(Len(seq) - 1) :
          Rank(seq[i + 1].status) - Rank(seq[i].status) \in {0, 1}

NonDecreasing(seq) ==
    \A i \in 1..(Len(seq) - 1) : seq[i + 1].progress >= seq[i].progress

\* C1: in every run of generate_documentation the statuses reported to the
\* callback, and those written to the checkpoint, follow pending, ingesting,
\* scanning, indexing, generating, merging, completed: each report repeats the
\* current status or moves to the next one, never backward and never past one.
C1_StatusesFollowPipeline ==
    mode = "github" => InPipelineOrder(reports) /\ InPipelineOrder(saved)

\* a GitHub run with chapters that reported completed to both sinks
C1_CompletedGithubRun ==
    /\ mode = "github" /\ pc = "done" /\ chapters >= 1
    /\ LastOf(reports).status = "completed"
    /\ saved # <<>> /\ LastOf(saved).status = "completed"

\* C2: within one orchestrator run (either entry point) the progress value
\* never decreases from one report to the next, for the callback and for the
\* checkpoint, up to the final 100.
C2_ProgressNeverDecreases ==
    NonDecreasing(reports) /\ NonDecreasing(saved)

\* a finished run with a download tick inside the loop and a chapter tick
\* strictly between the anchors
C2_RunWithIntermediateTicks ==
    /\ pc = "done" /\ LastOf(reports).progress = 100
    /\ \E i \in 1..Len(reports) :
          reports[i].status = "ingesting" /\ reports[i].progress \in 11..19
    /\ \E i \in 1..Len(reports) :
          reports[i].status = "generating" /\ reports[i].progress \in 51..89

FatalErrors == {"no_files", "outline_failed", "embedding_failed",
                "index_build_failed"}

\* C3 (as claimed): after a fatal error ended a run, the checkpoint exists, has
\* status failed and records the error.
C3_FailedRunMarksCheckpoint ==
    (pc = "failed" /\ collection = "ok" /\ error \cap FatalErrors # {})
        => (store.exists /\ store.status = "failed" /\ store.error # None)

\* C4 (as claimed): after a run of either entry point reported completed, the
\* store holds no checkpoint for the repo_id.
C4_NoCheckpointAfterCompleted ==
    (pc = "done" /\ collection = "ok") => ~store.exists

GeneratingOrLater == {"chapter_report", "chapter_gen", "pdf", "mark", "delete",
                      "complete", "done"}

\* C5 (as claimed): resume_generation on a checkpoint written after indexing
\* continues at the generating phase, without ingesting, downloading, scanning
\* or indexing again, on the persisted index_path.
C5_ResumeContinuesAtGenerating ==
    (resumed.called /\ resumed.indexed)
        => /\ pc \in GeneratingOrLater
           /\ calls.ingest = 0 /\ calls.download = 0 /\ calls.scan = 0
           /\ index_path = resumed.index_path

\* C6 (as claimed): once a safe boundary has been passed after cancellation was
\* signalled, the run issues no further external call.
C6_NoCallAfterCancelBoundary ==
    [][(stopDue /\ pc \in Running) => calls' = calls]_vars

\* C7: LLM failures of any chapters and a PDF failure never end the run with an
\* error; when the run returns, the markdown has one section per planned
\* chapter in plan order, a stub exactly for the chapters whose LLM call
\* failed, and no PDF reference when rendering failed.
C7_ChapterAndPdfFailuresTolerated ==
    /\ pc = "failed" => (faults.llm = {} /\ ~faults.pdf)
    /\ pc \in {"pdf", "mark", "delete", "complete", "done"}
          => Len(chapter_contents) = chapters
    /\ pc = "done" =>
          /\ result.returned
          /\ LastOf(reports).status = "completed"
          /\ Len(result.markdown) = chapters
          /\ \A i \in 1..chapters :
                /\ result.markdown[i].title = i
                /\ (result.markdown[i].kind = "stub") <=> (i \in faults.llm)
          /\ faults.pdf => result.pdf_url = None

\* a run that completed although every chapter and the PDF failed
C7_AllChaptersAndPdfFailed ==
    /\ pc = "done" /\ chapters >= 2
    /\ faults.llm = 1..chapters /\ faults.pdf
    /\ result.returned /\ result.pdf_url = None

\* C8 (as claimed): a run with k < n failed downloads completes and reports
\* total_files = n - k, the number of files downloaded; it is fatal only when
\* every download failed.
C8_TotalFilesCountsDownloaded ==
    /\ (pc = "done" /\ mode = "github") => result.total_files = repo_files
    /\ (mode = "github" /\ error = Some("no_files")) => repo_files = 0

(***************************************************************************)
(* Specification SpecIndex: the two artifacts of one index on disk, the    *)
(* writer (build_repo_index or vectorize_file) and a reader that loads     *)
(* both artifacts (query_index).                                           *)
(***************************************************************************)
\* chunk ids first, first + 1, ..., first + n - 1
\* seeded fault: new chunks numbered from 0 whatever the index holds
ChunkIdsFromZero(first, n) == [i \in 1..n |-> i - 1]

\* the chunk_id values of n new chunks: first, first + 1, ...
ChunkIds(first, n) == [i \in 1..n |-> first + i - 1]

\* load_metadata: the sidecar's list, or [] when the sidecar does not exist
LoadMetadata(meta) == IF meta = None THEN <<>> ELSE Get(meta)

\* build_repo_index up to build_faiss_index: n chunks numbered from 0 are
\* embedded (a failure raises and nothing is written) and indexed in memory;
\* the index goes to a new path
BuildRepoIndexInMemory(n, ok) ==
    /\ ipc = "idle"
    /\ diskIndex = None
    /\ IF ok
       THEN /\ memIndex' = n
            /\ memMeta' = ChunkIds(0, n)
            /\ ipc' = "save_index"
            /\ iop' = "build"
       ELSE UNCHANGED <<memIndex, memMeta, ipc, iop>>
    /\ UNCHANGED <<diskIndex, diskMeta, rpc, seenIndex, seenMeta, orchVars, idVars, compVars, moreVars>>

\* vectorize_file up to index.add / build_faiss_index: with an existing index
\* the index and its metadata are loaded and the n new chunks are numbered from
\* len(existing_metadata); an embedding failure raises and nothing is written
VectorizeFileInMemory(n, ok) ==
    /\ ipc = "idle"
    /\ LET existing == diskIndex # None
           loaded == IF existing THEN Get(diskIndex) ELSE 0
           existing_metadata == IF existing THEN LoadMetadata(diskMeta) ELSE <<>>
           chunk_offset == Len(existing_metadata)
       IN /\ loaded + n <= MaxIndexChunks
          /\ IF ok
             THEN /\ memIndex' = loaded + n
                  /\ memMeta' = existing_metadata \o ChunkIds(chunk_offset, n)
                  /\ ipc' = "save_index"
                  /\ iop' = "vectorize"
             ELSE UNCHANGED <<memIndex, memMeta, ipc, iop>>
    /\ UNCHANGED <<diskIndex, diskMeta, rpc, seenIndex, seenMeta, orchVars, idVars, compVars, moreVars>>

\* save_index(index, index_path): faiss.write_index replaces the index file
SaveIndex ==
    /\ ipc = "save_index"
    /\ diskIndex' = Some(memIndex)
    /\ ipc' = "save_metadata"
    /\ UNCHANGED <<iop, diskMeta, memIndex, memMeta, rpc, seenIndex, seenMeta,
                   orchVars, idVars, compVars, moreVars>>

\* save_metadata(index_path, combined_meta): the sidecar is written afterwards
SaveMetadata ==
    /\ ipc = "save_metadata"
    /\ diskMeta' = Some(memMeta)
    /\ ipc' = "idle"
    /\ iop' = "none"
    /\ UNCHANGED <<diskIndex, memIndex, memMeta, rpc, seenIndex, seenMeta,
                   orchVars, idVars, compVars, moreVars>>

\* query_index: os.path.exists(index_path), then load_index(index_path)
ReaderLoadIndex ==
    /\ rpc = "idle"
    /\ diskIndex # None
    /\ seenIndex' = Get(diskIndex)
    /\ rpc' = "index_loaded"
    /\ UNCHANGED <<ipc, iop, diskIndex, diskMeta, memIndex, memMeta, seenMeta,
                   orchVars, idVars, compVars, moreVars>>

\* query_index: load_metadata(index_path), a second read of the disk
ReaderLoadMetadata ==
    /\ rpc = "index_loaded"
    /\ seenMeta' = Len(LoadMetadata(diskMeta))
    /\ rpc' = "loaded"
    /\ UNCHANGED <<ipc, iop, diskIndex, diskMeta, memIndex, memMeta, seenIndex,
                   orchVars, idVars, compVars, moreVars>>

\* the query returns; the next one starts from scratch
ReaderReturn ==
    /\ rpc = "loaded"
    /\ rpc' = "idle"
    /\ seenIndex' = 0
    /\ seenMeta' = 0
    /\ UNCHANGED <<ipc, iop, diskIndex, diskMeta, memIndex, memMeta,
                   orchVars, idVars, compVars, moreVars>>

InitIndex == Init /\ collection = "ok"

NextIndex ==
    \/ \E n \in 1..MaxNewChunks, ok \in BOOLEAN : BuildRepoIndexInMemory(n, ok)
    \/ \E n \in 1..MaxNewChunks, ok \in BOOLEAN : VectorizeFileInMemory(n, ok)
    \/ SaveIndex
    \/ SaveMetadata
    \/ ReaderLoadIndex
    \/ ReaderLoadMetadata
    \/ ReaderReturn

SpecIndex == InitIndex /\ [][NextIndex]_vars

\* C9 (as claimed): whenever the index can be observed on disk, and whenever a
\* reader has loaded both artifacts, the number of vectors equals the number of
\* entries of the .meta.json sidecar.
C9_VectorsMatchMetadata ==
    /\ diskIndex # None => Get(diskIndex) = Len(LoadMetadata(diskMeta))
    /\ rpc = "loaded" => seenIndex = seenMeta

(***************************************************************************)
(* Specification SpecIds: two job workers started by the HTTP routes; the  *)
(* identifiers they derive from int(time.time()).                          *)
(***************************************************************************)
\* GitHubService.ingest_repository: f"{owner}_{repo_name}_{int(time.time())}"
GithubRepoId(repo, now) == [name |-> repo, t |-> now]

\* POST /api/generate: f"zip_upload_{int(time.time())}"
ZipRepoId(now) == [name |-> "zip_upload", t |-> now]

\* build_repo_index: f"{repo_id}_{timestamp}.index" under RAG_INDEX_PATH
IndexFilePath(id, now) == [id |-> id, t |-> now]

\* save_checkpoint is an upsert keyed by repo_id
Upsert(cps, id, w) == {c \in cps : c.id # id} \cup {[id |-> id, owner |-> w]}

\* save_index writes (or replaces) the file at path
WriteFile(files, path, w) ==
    {f \in files : f.path # path} \cup {[path |-> path, writer |-> w]}

\* one second passes on the wall clock
ClockTick ==
    /\ clock < MaxClock
    /\ clock' = clock + 1
    /\ UNCHANGED <<wpc, wkind, wrepo, wid, wpath, cpStore, idxFiles,
                   orchVars, indexVars, compVars, moreVars>>

\* POST /api/repo/generate without repo_id: the route ingests the repository,
\* takes the repo_id of the ingestion, and generate_documentation saves the
\* first checkpoint under it
StartGithubJob(w, repo) ==
    /\ wpc[w] = "idle"
    /\ LET id == GithubRepoId(repo, clock) IN
       /\ wid' = [wid EXCEPT ![w] = id]
       /\ cpStore' = Upsert(cpStore, id, w)
    /\ wkind' = [wkind EXCEPT ![w] = "github"]
    /\ wrepo' = [wrepo EXCEPT ![w] = repo]
    /\ wpc' = [wpc EXCEPT ![w] = "running"]
    /\ UNCHANGED <<clock, wpath, idxFiles, orchVars, indexVars, compVars, moreVars>>

\* POST /api/generate with archive files: the route makes the repo_id and
\* generate_documentation_from_files saves the first checkpoint under it
StartZipJob(w) ==
    /\ wpc[w] = "idle"
    /\ LET id == ZipRepoId(clock) IN
       /\ wid' = [wid EXCEPT ![w] = id]
       /\ cpStore' = Upsert(cpStore, id, w)
    /\ wkind' = [wkind EXCEPT ![w] = "zip"]
    /\ wrepo' = [wrepo EXCEPT ![w] = "upload"]
    /\ wpc' = [wpc EXCEPT ![w] = "running"]
    /\ UNCHANGED <<clock, wpath, idxFiles, orchVars, indexVars, compVars, moreVars>>

\* build_repo_index(repo_id, repo_files): the index is saved under a path made
\* of the repo_id and the second of the save; the checkpoint records it
WorkerBuildIndex(w) ==
    /\ wpc[w] = "running"
    /\ LET path == IndexFilePath(wid[w], clock) IN
       /\ wpath' = [wpath EXCEPT ![w] = path]
       /\ idxFiles' = WriteFile(idxFiles, path, w)
    /\ cpStore' = Upsert(cpStore, wid[w], w)
    /\ wpc' = [wpc EXCEPT ![w] = "indexed"]
    /\ UNCHANGED <<clock, wkind, wrepo, wid, orchVars, indexVars, compVars, moreVars>>

\* the run ends: generate_documentation deletes the checkpoint of its repo_id,
\* generate_documentation_from_files leaves it
WorkerFinish(w) ==
    /\ wpc[w] = "indexed"
    /\ cpStore' = IF wkind[w] = "github"
                  THEN {c \in cpStore : c.id # wid[w]}
                  ELSE cpStore
    /\ wpc' = [wpc EXCEPT ![w] = "finished"]
    /\ UNCHANGED <<clock, wkind, wrepo, wid, wpath, idxFiles, orchVars, indexVars, compVars, moreVars>>

InitIds == Init /\ collection = "ok"

NextIds ==
    \/ ClockTick
    \/ \E w \in Workers, repo \in Repos : StartGithubJob(w, repo)
    \/ \E w \in Workers : StartZipJob(w)
    \/ \E w \in Workers : WorkerBuildIndex(w)
    \/ \E w \in Workers : WorkerFinish(w)

SpecIds == InitIds /\ [][NextIds]_vars

Active(w) == wpc[w] \in {"running", "indexed"}

\* C10 (as claimed): two workers running concurrently use distinct repo_ids
\* and distinct index file paths, and each one's checkpoint and index file were
\* last written by itself.
C10_WorkersUseDistinctIds ==
    \A w1 \in Workers, w2 \in Workers :
        (w1 # w2 /\ Active(w1) /\ Active(w2)) =>
            /\ wid[w1] # wid[w2]
            /\ (wpc[w1] = "indexed" /\ wpc[w2] = "indexed") => wpath[w1] # wpath[w2]
            /\ \A c \in cpStore : c.id = wid[w1] => c.owner = w1
            /\ \A f \in idxFiles : f.path = wpath[w1] => f.writer = w1


(***************************************************************************)
(* The chapter loop: order of generation and of the progress reports.      *)
(***************************************************************************)
DocPhases == {"chapter_report", "chapter_gen", "pdf", "mark", "delete",
              "complete", "done"}

\* C11: chapter i+1 is never begun (retrieval, LLM call) before the generation
\* of chapter i has returned its content or stub: every LLM call issued so far
\* has its output in chapter_contents, the chapter about to be generated is
\* the one after the outputs collected, and the outputs are in plan order.
C11_ChaptersGeneratedInSequence ==
    pc \in DocPhases =>
        /\ calls.llm = Len(chapter_contents)
        /\ pc \in {"chapter_report", "chapter_gen"} => chap = Len(chapter_contents) + 1
        /\ \A i \in 1..Len(chapter_contents) : chapter_contents[i].title = i

\* the second chapter is about to be generated, the first one has returned
C11_SecondChapterAfterFirst ==
    /\ pc = "chapter_gen" /\ chap = 2
    /\ Len(chapter_contents) = 1 /\ calls.llm = 1

\* C12 (as claimed): the k-th chapter progress report (completed_steps = 3 + k)
\* is emitted only after the generation of chapter k has finished, and a plan
\* of N chapters gets exactly N such reports.
C12_TickAfterChapterFinished ==
    pc \in DocPhases =>
        /\ \A i \in 1..Len(reports) :
              (reports[i].status = "generating" /\ reports[i].completed_steps > 3)
                  => reports[i].completed_steps - 3 <= Len(chapter_contents)
        /\ pc = "done" =>
              Cardinality({i \in 1..Len(reports) :
                  reports[i].status = "generating" /\ reports[i].completed_steps > 3})
                  = chapters


(***************************************************************************)
(* Specification SpecFilter: the admission loops of                        *)
(* GitHubService.filter_and_validate_files and ZipService.extract_zip.     *)
(* A listing entry is [file, eligible, size, lost, readable]: file is      *)
(* FALSE for a directory, eligible says the path passes the ignore         *)
(* patterns and the extension list, size is the declared size, lost the    *)
(* bytes that decode('utf-8', errors='ignore') drops, readable whether     *)
(* zip_ref.read succeeds.                                                  *)
(***************************************************************************)
Entries == [file : BOOLEAN, eligible : BOOLEAN, size : 0..MaxEntrySize,
            lost : 0..1, readable : BOOLEAN]

Budgets == 0..MaxBudget

RECURSIVE SumOf(_)
SumOf(sizes) == IF sizes = <<>> THEN 0 ELSE Head(sizes) + SumOf(Tail(sizes))

\* skipped.append(...), with or without warnings.append(...)
Skip(f, warned) ==
    [f EXCEPT !.skipped = @ + 1, !.warnings = IF warned THEN @ + 1 ELSE @]

\* skipped.append(...); warnings.append(...); break
Break(f) == [Skip(f, TRUE) EXCEPT !.tripped = TRUE, !.pc = "after_loop"]

\* included.append(...); total_chars += size
Admit(f, size) ==
    [f EXCEPT !.included = Append(@, size), !.total_chars = @ + size]

\* seeded fault: the total is compared before the file's size is added
FilterItemLateTotal(f, it) ==
    IF ~it.file THEN f
    ELSE IF ~it.eligible THEN Skip(f, FALSE)
    ELSE IF it.size > f.max_single_file THEN Skip(f, TRUE)
    ELSE IF Len(f.included) >= f.max_files THEN Break(f)
    ELSE IF f.total_chars > f.max_total_chars THEN Break(f)
    ELSE Admit(f, it.size)

\* one iteration of the loop of filter_and_validate_files
FilterItem(f, it) ==
    IF ~it.file THEN f
    ELSE IF ~it.eligible THEN Skip(f, FALSE)
    ELSE IF it.size > f.max_single_file THEN Skip(f, TRUE)
    ELSE IF Len(f.included) >= f.max_files THEN Break(f)
    ELSE IF f.total_chars + it.size > f.max_total_chars THEN Break(f)
    ELSE Admit(f, it.size)

\* len(zip_ref.read(path).decode('utf-8', errors='ignore'))
DecodedLength(it) == IF it.lost > it.size THEN 0 ELSE it.size - it.lost

\* one iteration of the loop of extract_zip
ZipEntry(f, it) ==
    IF ~it.file THEN f
    ELSE IF ~it.eligible THEN Skip(f, FALSE)
    ELSE IF Len(f.included) >= f.max_files THEN Break(f)
    ELSE IF it.size > f.max_single_file THEN Skip(f, TRUE)
    ELSE IF f.total_chars + it.size > f.max_total_chars THEN Break(f)
    ELSE IF it.readable THEN Admit(f, DecodedLength(it))
    ELSE Skip(f, FALSE)

\* the call: filter_and_validate_files gets its budgets as arguments,
\* ZipService takes them from the settings (environment variables)
StartFilter(kind, max_files, max_total_chars, max_single_file) ==
    /\ filt.pc \in {"idle", "returned", "raised"}
    /\ filt' = [NoFilter EXCEPT !.kind = kind, !.pc = "loop",
                                !.max_files = max_files,
                                !.max_total_chars = max_total_chars,
                                !.max_single_file = max_single_file]
    /\ UNCHANGED <<srch, qry, outl, chapOut, client, orchVars, indexVars, idVars, moreVars>>

\* the loop body on the next entry of the listing
FilterNextEntry(it) ==
    /\ filt.pc = "loop"
    /\ filt.seen < MaxEntries
    /\ LET f == [filt EXCEPT !.seen = @ + 1] IN
       filt' = IF filt.kind = "github" THEN FilterItem(f, it) ELSE ZipEntry(f, it)
    /\ UNCHANGED <<srch, qry, outl, chapOut, client, orchVars, indexVars, idVars, moreVars>>

\* the listing is exhausted
EndOfListing ==
    /\ filt.pc = "loop"
    /\ filt' = [filt EXCEPT !.pc = "after_loop"]
    /\ UNCHANGED <<srch, qry, outl, chapOut, client, orchVars, indexVars, idVars, moreVars>>

\* after the loop: filter_and_validate_files returns its three lists;
\* extract_zip raises ValidationError when nothing was included
FilterReturns ==
    /\ filt.pc = "after_loop"
    /\ filt' = [filt EXCEPT !.pc =
                   IF filt.kind = "zip" /\ filt.included = <<>>
                   THEN "raised" ELSE "returned"]
    /\ UNCHANGED <<srch, qry, outl, chapOut, client, orchVars, indexVars, idVars, moreVars>>

InitFilter == Init /\ collection = "ok"

NextFilter ==
    \/ \E kind \in {"github", "zip"}, mf \in Budgets, mt \in Budgets, ms \in Budgets :
          StartFilter(kind, mf, mt, ms)
    \/ \E it \in Entries : FilterNextEntry(it)
    \/ EndOfListing
    \/ FilterReturns

SpecFilter == InitFilter /\ [][NextFilter]_vars

WithinBudget(f) ==
    /\ Len(f.included) <= f.max_files
    /\ \A i \in 1..Len(f.included) : f.included[i] <= f.max_single_file
    /\ SumOf(f.included) <= f.max_total_chars
    /\ f.total_chars = SumOf(f.included)

\* C13 (amended): the admitted files stay within the three budgets at every
\* point of both loops; once a cumulative cap trips a warning is recorded and
\* the loop ends; filter_and_validate_files never raises, and extract_zip
\* raises only when no entry at all was admitted.
C13_AdmittedWithinBudget ==
    /\ WithinBudget(filt)
    /\ filt.tripped => (filt.warnings >= 1 /\ filt.pc # "loop")
    /\ filt.pc = "raised" => (filt.kind = "zip" /\ filt.included = <<>>)

\* a cumulative cap tripped after files were admitted, and the call returned
C13_CapTrippedAfterAdmission ==
    /\ filt.pc = "returned" /\ filt.tripped
    /\ Len(filt.included) >= 2 /\ filt.warnings >= 1

\* C13 (as claimed): within budget, and once a cumulative cap trips the
\* remaining files are skipped with a warning and no error is raised.
C13_CapNeverRaises ==
    /\ WithinBudget(filt)
    /\ filt.tripped => (filt.warnings >= 1 /\ filt.pc # "raised")


(***************************************************************************)
(* Specifications SpecSearch (vectorstore.search) and SpecQuery            *)
(* (RAGIndexService.query_index).  A query is given by the L2 distance of    *)
(* its embedding to every vector of the index; positions count from 1.     *)
(* A similarity threshold is given in tenths (1 is 0.1, 7 is 0.7).         *)
(***************************************************************************)
\* distances on both sides of the thresholds: 1/(1+9) = 0.1, 1/(1+10) < 0.1
Distances == {0, 9, 10}
Thresholds == {0, 1, 7}

SeqsUpTo(S, n) == UNION {[1..k -> S] : k \in 0..n}

Min(a, b) == IF a <= b THEN a ELSE b

Range(seq) == {seq[i] : i \in 1..Len(seq)}

\* similarity = 1.0 / (1.0 + dist) >= threshold, the threshold in tenths
SimilarityAtLeast(dist, tenths) == 10 >= tenths * (1 + dist)

\* similarity(d1) >= similarity(d2)
AsSimilar(d1, d2) == 1 + d2 >= 1 + d1

\* index.search(query, k): the k nearest positions, nearest first
RECURSIVE IndexSearch(_, _, _)
IndexSearch(dists, taken, k) ==
    IF k = 0 \/ taken = DOMAIN dists THEN <<>>
    ELSE LET rest == DOMAIN dists \ taken
             best == CHOOSE p \in rest :
                        \A q \in rest : dists[p] < dists[q] \/ (dists[p] = dists[q] /\ p <= q)
         IN <<best>> \o IndexSearch(dists, taken \cup {best}, k - 1)

\* the filtering loop of search: keep candidates above the threshold until
\* top_k are kept
RECURSIVE KeepSimilar(_, _, _, _)
KeepSimilar(cands, dists, tenths, room) ==
    IF cands = <<>> \/ room = 0 THEN <<>>
    ELSE IF SimilarityAtLeast(dists[Head(cands)], tenths)
         THEN <<Head(cands)>> \o KeepSimilar(Tail(cands), dists, tenths, room - 1)
         ELSE KeepSimilar(Tail(cands), dists, tenths, room)

\* seeded fault: the loop does not stop once top_k results are kept
SearchNoStop(dists, top_k, tenths) ==
    IF Len(dists) = 0 THEN <<>>
    ELSE LET search_k == IF tenths > 0 THEN Min(top_k * 3, Len(dists))
                         ELSE Min(top_k, Len(dists))
             I == IndexSearch(dists, {}, search_k)
         IN IF tenths = 0 THEN SubSeq(I, 1, Min(top_k, Len(I)))
            ELSE KeepSimilar(I, dists, tenths, Len(I))

\* search(index, query_vector, top_k, similarity_threshold): the positions
\* returned (the distances and similarities returned are those of the positions)
Search(dists, top_k, tenths) ==
    IF Len(dists) = 0 THEN <<>>
    ELSE LET search_k == IF tenths > 0 THEN Min(top_k * 3, Len(dists))
                         ELSE Min(top_k, Len(dists))
             I == IndexSearch(dists, {}, search_k)
         IN IF tenths = 0 THEN SubSeq(I, 1, Min(top_k, Len(I)))
            ELSE KeepSimilar(I, dists, tenths, top_k)

\* a caller runs search on an index of Len(dists) vectors
SearchCall(dists, top_k, tenths) ==
    /\ srch' = [called |-> TRUE, dists |-> dists, top_k |-> top_k,
                threshold |-> tenths, idxs |-> Search(dists, top_k, tenths)]
    /\ UNCHANGED <<filt, qry, outl, chapOut, client, orchVars, indexVars, idVars, moreVars>>

\* query_index up to the loop: the index and its metadata are loaded; empty
\* metadata raises ValueError.  metadata[i] says whether chunk i has text.
StartQueryIndex(metadata, ntotal, top_k) ==
    /\ qry.pc \in {"idle", "returned", "raised"}
    /\ qry' = [NoQuery EXCEPT !.pc = IF metadata = <<>> THEN "raised" ELSE "loop",
                              !.metadata = metadata, !.ntotal = ntotal,
                              !.top_k = top_k]
    /\ UNCHANGED <<filt, srch, outl, chapOut, client, orchVars, indexVars, idVars, moreVars>>

\* the hits of one query: search at 0.1, and again at 0.0 when that is empty
QueryHits(dists, top_k) ==
    LET first == Search(dists, top_k, 1)
    IN IF Len(first) = 0 THEN Search(dists, top_k, 0) ELSE first

\* seeded fault: a chunk is appended whether or not it was seen before
RECURSIVE AddAllChunks(_, _, _)
AddAllChunks(q, idxs, n) ==
    IF n > Len(idxs) THEN q
    ELSE LET hit == idxs[n]
             usable == hit \in 1..Len(q.metadata) /\ q.metadata[hit]
         IN AddAllChunks(
               IF usable
               THEN [q EXCEPT !.seen_chunk_ids = @ \cup {hit},
                              !.selected_chunks = Append(@, hit)]
               ELSE q, idxs, n + 1)

\* the inner loop of query_index from hit n on: a hit inside the metadata
\* list, with text, not seen before is appended
RECURSIVE AddUniqueChunks(_, _, _)
AddUniqueChunks(q, idxs, n) ==
    IF n > Len(idxs) THEN q
    ELSE LET hit == idxs[n]
             usable == hit \in 1..Len(q.metadata) /\ q.metadata[hit]
         IN AddUniqueChunks(
               IF usable /\ hit \notin q.seen_chunk_ids
               THEN [q EXCEPT !.seen_chunk_ids = @ \cup {hit},
                              !.selected_chunks = Append(@, hit)]
               ELSE q, idxs, n + 1)

\* the positions retrieved so far, in order of first retrieval
RECURSIVE LogRetrieved(_, _)
LogRetrieved(log, idxs) ==
    IF idxs = <<>> THEN log
    ELSE LogRetrieved(IF Head(idxs) \in Range(log) THEN log ELSE Append(log, Head(idxs)),
                      Tail(idxs))

\* what the tiers of one query did: whether the hits of the search at 0.1
\* gave a chunk (a hit inside the metadata, with text), and whether the search
\* at 0.0 was made
TiersOf(q, dists) ==
    LET low == Search(dists, q.top_k, 1) IN
    [low_gave_chunk |-> \E n \in 1..Len(low) :
                           low[n] \in 1..Len(q.metadata) /\ q.metadata[low[n]],
     zero_tried |-> Len(low) = 0]

\* one iteration of the query loop: the query is embedded (a failure is
\* logged and the query skipped), searched, and its hits are added
QueryNext(embed_ok, dists) ==
    /\ qry.pc = "loop"
    /\ qry.asked < MaxQueries
    /\ Len(dists) = qry.ntotal
    /\ LET q == [qry EXCEPT !.asked = @ + 1]
           idxs == QueryHits(dists, qry.top_k)
       IN qry' = IF embed_ok
                 THEN [AddUniqueChunks(q, idxs, 1) EXCEPT
                          !.retrieved = LogRetrieved(@, idxs),
                          !.tiers = Append(@, TiersOf(q, dists))]
                 ELSE q
    /\ UNCHANGED <<filt, srch, outl, chapOut, client, orchVars, indexVars, idVars, moreVars>>

\* the final fallback: the chunks with text among the first 2 * top_k entries
\* of the metadata, at most top_k of them
RECURSIVE FallbackChunks(_, _, _, _)
FallbackChunks(metadata, n, last, room) ==
    IF n > last \/ room = 0 THEN <<>>
    ELSE IF metadata[n]
         THEN <<n>> \o FallbackChunks(metadata, n + 1, last, room - 1)
         ELSE FallbackChunks(metadata, n + 1, last, room)

\* after the loop: the selected chunks, or the fallback when none was selected
QueryReturns ==
    /\ qry.pc = "loop"
    /\ LET fb == FallbackChunks(qry.metadata, 1,
                                Min(qry.top_k * 2, Len(qry.metadata)), qry.top_k)
       IN qry' = IF Len(qry.selected_chunks) = 0
                 THEN [qry EXCEPT !.pc = "returned", !.fallback = TRUE,
                                  !.selected_chunks = fb]
                 ELSE [qry EXCEPT !.pc = "returned"]
    /\ UNCHANGED <<filt, srch, outl, chapOut, client, orchVars, indexVars, idVars, moreVars>>

InitQuery == Init /\ collection = "ok"

NextQuery ==
    \/ \E metadata \in SeqsUpTo(BOOLEAN, MaxChunks), extra \in 0..1,
          top_k \in 1..MaxTopK : StartQueryIndex(metadata, Len(metadata) + extra, top_k)
    \/ \E ok \in BOOLEAN, dists \in SeqsUpTo(Distances, MaxChunks + 1) :
          QueryNext(ok, dists)
    \/ QueryReturns

SpecQuery == InitQuery /\ [][NextQuery]_vars

InitSearch == Init /\ collection = "ok"

NextSearch ==
    \E dists \in SeqsUpTo(Distances, MaxChunks + 1), top_k \in 1..MaxTopK,
       tenths \in Thresholds : SearchCall(dists, top_k, tenths)

SpecSearch == InitSearch /\ [][NextSearch]_vars

\* the place of position p in a sequence without repeats (0 when absent)
PlaceIn(seq, p) == IF p \in Range(seq) THEN CHOOSE i \in 1..Len(seq) : seq[i] = p ELSE 0

NoRepeats(seq) == \A i \in 1..Len(seq), j \in 1..Len(seq) : seq[i] = seq[j] => i = j

\* C14: for any list of queries, query_index returns each chunk position at
\* most once, every returned chunk has text and a position inside the metadata
\* list, and the chunks retrieved by the queries are returned in the order of
\* their first retrieval.
C14_UniqueChunksInRetrievalOrder ==
    qry.pc \in {"loop", "returned"} =>
        LET out == qry.selected_chunks IN
        /\ NoRepeats(out)
        /\ \A i \in 1..Len(out) : out[i] \in 1..Len(qry.metadata) /\ qry.metadata[out[i]]
        /\ ~qry.fallback =>
              /\ \A i \in 1..Len(out) : out[i] \in Range(qry.retrieved)
              /\ \A i \in 1..Len(out), j \in 1..Len(out) :
                    i < j => PlaceIn(qry.retrieved, out[i]) < PlaceIn(qry.retrieved, out[j])
              /\ \A p \in Range(qry.retrieved) :
                    (p \in 1..Len(qry.metadata) /\ qry.metadata[p]) => p \in Range(out)

\* two queries retrieved overlapping chunks and the call returned two chunks
C14_TwoQueriesShareAChunk ==
    /\ qry.pc = "returned" /\ qry.asked = 2 /\ ~qry.fallback
    /\ Len(qry.selected_chunks) = 2 /\ qry.top_k >= 2
    /\ qry.selected_chunks[1] > qry.selected_chunks[2]

\* C15 (as claimed): when the index holds fewer than top_k chunks, all with
\* text, query_index returns every chunk exactly once for any non-empty list
\* of queries.
C15_SmallIndexReturnsEveryChunk ==
    (/\ qry.pc = "returned" /\ qry.asked >= 1
     /\ qry.ntotal = Len(qry.metadata) /\ Len(qry.metadata) < qry.top_k
     /\ \A i \in 1..Len(qry.metadata) : qry.metadata[i])
        => /\ NoRepeats(qry.selected_chunks)
           /\ Range(qry.selected_chunks) = 1..Len(qry.metadata)

\* C16: search returns at most top_k hits, without repeats, in descending
\* similarity, each at least as similar as the threshold, all among the
\* 3 * top_k nearest vectors; with threshold 0 it returns exactly
\* min(top_k, |index|) hits.
C16_SearchReturnsBestTopK ==
    srch.called =>
        LET out == srch.idxs
            d == srch.dists
        IN /\ Len(out) <= srch.top_k
           /\ NoRepeats(out)
           /\ \A i \in 1..Len(out) : out[i] \in 1..Len(d)
           /\ \A i \in 1..Len(out), j \in 1..Len(out) :
                 i < j => AsSimilar(d[out[i]], d[out[j]])
           /\ \A i \in 1..Len(out) : SimilarityAtLeast(d[out[i]], srch.threshold)
           /\ \A i \in 1..Len(out) :
                 Cardinality({p \in 1..Len(d) : d[p] < d[out[i]]}) < 3 * srch.top_k
           /\ srch.threshold = 0 => Len(out) = Min(srch.top_k, Len(d))

\* a search that had to drop candidates: more vectors pass the threshold than
\* top_k, and some vector does not pass
C16_SearchTruncatesAndFilters ==
    /\ srch.called /\ srch.threshold > 0 /\ srch.top_k = 2
    /\ Len(srch.idxs) = 2 /\ Len(srch.dists) = 3
    /\ Cardinality({p \in 1..3 : SimilarityAtLeast(srch.dists[p], srch.threshold)}) = 3


(***************************************************************************)
(* Specification SpecOutline: RepoScanService.scan_repository and          *)
(* _parse_outline.  The LLM's outline text is given by what the parser     *)
(* finds in it: whether the JSON pattern matches and loads, the chapters   *)
(* of the JSON object, and the chapters under "##" headings; a chapter is  *)
(* given by its number of retrieval queries.                               *)
(***************************************************************************)
Outlines == [json : {"none", "valid", "broken"},
             json_chapters : SeqsUpTo(0..1, MaxOutline),
             headings : SeqsUpTo(0..1, MaxOutline)]

\* Overview, Architecture, Core Components, API Reference, Usage Examples,
\* three retrieval queries each
DefaultChapters == <<3, 3, 3, 3, 3>>

\* _parse_outline: the chapters of the JSON object when it loads; otherwise
\* the chapters under the Markdown headings; the default when there is none
ParseOutline(text) ==
    IF text.json = "valid" THEN text.json_chapters
    ELSE IF text.headings # <<>> THEN text.headings
    ELSE DefaultChapters

\* scan_repository: the outline is asked of the LLM (a failure is raised as
\* ValidationError) and parsed
ScanOutline(llm_ok, text) ==
    /\ outl' = IF llm_ok
               THEN [called |-> TRUE, raised |-> FALSE, text |-> text,
                     chapters |-> ParseOutline(text)]
               ELSE [NoOutline EXCEPT !.called = TRUE, !.raised = TRUE]
    /\ UNCHANGED <<filt, srch, qry, chapOut, client, orchVars, indexVars, idVars, moreVars>>

InitOutline == Init /\ collection = "ok"

NextOutline == \E llm_ok \in BOOLEAN, text \in Outlines : ScanOutline(llm_ok, text)

SpecOutline == InitOutline /\ [][NextOutline]_vars

\* C17 (as claimed): whatever outline text the LLM returns, the plan returned
\* has between 5 and 12 chapters and every chapter has at least one retrieval
\* query.
C17_PlanHasFiveToTwelveChapters ==
    (outl.called /\ ~outl.raised) =>
        /\ Len(outl.chapters) >= 5 /\ Len(outl.chapters) <= 12
        /\ \A i \in 1..Len(outl.chapters) : outl.chapters[i] >= 1


(***************************************************************************)
(* Specification SpecChapter: RepoDocService.generate_chapter on its own.  *)
(* The LLM's markdown is given by its first line (no heading, or a heading *)
(* of some level and text) and its body.                                   *)
(***************************************************************************)
Titles == {"Overview", "Architecture", "Core Components", "API Reference"}

NoHeading == [level |-> 0, text |-> ""]

\* what the LLM may return: markdown that starts with "#" or does not
LlmOutputs == [heading : {NoHeading} \cup [level : 1..3, text : Titles \cup {"Introduction"}],
               body : {"prose", "code"}]

\* f"## {chapter.title}\n\n..."
OwnHeading(title) == [level |-> 2, text |-> title]

\* "if not markdown.strip().startswith('#'): markdown = f'## {title}\n\n{markdown}'"
EnsureHeading(title, out) ==
    IF out.heading = NoHeading THEN [out EXCEPT !.heading = OwnHeading(title)] ELSE out

\* generate_chapter: found chunks come from query_index, sampled ones from
\* the random-sample fallback; with none the notice is returned; an LLM
\* failure gives the error stub
ChapterMarkdown(title, found, sampled, llm_ok, out) ==
    LET chunks == IF found > 0 THEN found ELSE sampled
        base == [called |-> TRUE, title |-> title, chunks |-> chunks]
    IN IF chunks = 0
       THEN base @@ [kind |-> "notice", heading |-> OwnHeading(title), body |-> "notice"]
       ELSE IF ~llm_ok
       THEN base @@ [kind |-> "stub", heading |-> OwnHeading(title), body |-> "error"]
       ELSE base @@ [kind |-> "content", heading |-> EnsureHeading(title, out).heading,
                     body |-> out.body]

GenerateChapterAlone(title, found, sampled, llm_ok, out) ==
    /\ chapOut' = ChapterMarkdown(title, found, sampled, llm_ok, out)
    /\ UNCHANGED <<filt, srch, qry, outl, client, orchVars, indexVars, idVars, moreVars>>

InitChapter == Init /\ collection = "ok"

NextChapter ==
    \E title \in Titles, found \in 0..MaxChunks, sampled \in 0..MaxChunks,
       llm_ok \in BOOLEAN, out \in LlmOutputs :
          GenerateChapterAlone(title, found, sampled, llm_ok, out)

SpecChapter == InitChapter /\ [][NextChapter]_vars

\* C18 (as claimed): every chapter output (LLM content, no-content notice or
\* error stub) begins with a heading whose text equals the chapter's title.
C18_OutputBeginsWithChapterTitle ==
    chapOut.called =>
        (chapOut.heading.level >= 1 /\ chapOut.heading.text = chapOut.title)


(***************************************************************************)
(* Specification SpecFaulty: one orchestrator run whose collaborators      *)
(* succeed, with a checkpoint store and a status callback that may fail    *)
(* at any call.  The run is the first one of the worker.                   *)
(***************************************************************************)
\* MongoDB starts to fail: every collection call raises inside
\* CheckpointService, which logs it and returns False
StoreOutage ==
    /\ collection = "ok"
    /\ collection' = "failing"
    /\ UNCHANGED <<pc, mode, runs, callback, store, saved, reports, total_files,
                   idx, repo_files, chapters, chap, chapter_contents, index_path,
                   pdf_url, result, error, calls, cancelled, stopDue, resumed,
                   faults, indexVars, idVars, compVars, moreVars>>

\* MongoDB answers again
StoreRecovery ==
    /\ collection = "failing"
    /\ collection' = "ok"
    /\ UNCHANGED <<pc, mode, runs, callback, store, saved, reports, total_files,
                   idx, repo_files, chapters, chap, chapter_contents, index_path,
                   pdf_url, result, error, calls, cancelled, stopDue, resumed,
                   faults, indexVars, idVars, compVars, moreVars>>

\* the status callback starts or stops raising
CallbackFlips ==
    /\ callback' = IF callback = "ok" THEN "raises" ELSE "ok"
    /\ UNCHANGED <<pc, mode, runs, collection, store, saved, reports, total_files,
                   idx, repo_files, chapters, chap, chapter_contents, index_path,
                   pdf_url, result, error, calls, cancelled, stopDue, resumed,
                   faults, indexVars, idVars, compVars, moreVars>>

InitFaulty == Init

NextFaulty ==
    \/ StoreOutage
    \/ StoreRecovery
    \/ CallbackFlips
    \/ (pc = "idle" /\ GenerateDocumentation)
    \/ \E n \in 1..MaxFiles : IngestRepository(TRUE, n)
    \/ DownloadFile(TRUE)
    \/ \E n \in 0..MaxChapters : ScanRepository(TRUE, n)
    \/ BuildRepoIndex("ok")
    \/ ChapterProgressReport
    \/ \E llm_ok \in BOOLEAN : GenerateChapter(llm_ok)
    \/ \E ok \in BOOLEAN : GeneratePdf(ok)
    \/ MarkCheckpointCompleted
    \/ DeleteCompletedCheckpoint
    \/ ReturnResult
    \/ \E n \in 1..MaxFiles : (pc = "idle" /\ GenerateDocumentationFromFiles(n))
    \/ \E n \in 0..MaxChapters : ScanFromFiles(TRUE, n)
    \/ BuildIndexFromFiles("ok")
    \/ \E ok \in BOOLEAN : GeneratePdfFromFiles(ok)
    \/ ReturnResultFromFiles

SpecFaulty == InitFaulty /\ [][NextFaulty]_vars

\* C19: whatever checkpoint-store calls and status callbacks fail, a run whose
\* other collaborators succeed never ends in an error, and the markdown it
\* returns is the one the chapters give: it does not depend on the store or
\* on the callback.
C19_StoreFailuresNeverAbort ==
    /\ pc # "failed" /\ error = None
    /\ pc = "done" =>
          /\ result.returned
          /\ result.markdown =
                [i \in 1..chapters |-> ChapterOutput(i, i \notin faults.llm)]

\* a GitHub run returned although the store failed from the ingestion on
\* (the checkpoint is still there, at ingesting) and the completion callback
\* raised when called
C19_CompletedDespiteOutage ==
    /\ mode = "github" /\ pc = "done" /\ result.returned /\ chapters >= 1
    /\ collection = "failing" /\ store.exists /\ store.status = "ingesting"
    /\ callback = "raises" /\ LastOf(reports).status = "completed"


(***************************************************************************)
(* Specification SpecStore: a client calling CheckpointService for one     *)
(* repo_id: save_checkpoint, delete_checkpoint, get_checkpoint.            *)
(***************************************************************************)
SavedStatuses == {"pending", "indexing", "generating"}
SavedProgress == {0, 45, 50}
SavedArtifacts == [repo_files : {None, Some(1)}, chapters : {None, Some(2)},
                   index_path : {None, Some(IndexPathOf(1))}]

\* the artifacts a reader expects: of each one the last value saved that was
\* not None
LatestArtifacts(old, arts) ==
    [repo_files |-> IF arts.repo_files = None THEN old.repo_files ELSE arts.repo_files,
     chapters |-> IF arts.chapters = None THEN old.chapters ELSE arts.chapters,
     index_path |-> IF arts.index_path = None THEN old.index_path ELSE arts.index_path]

\* save_checkpoint(repo_id, status, progress, ..., artifacts) succeeds
ClientSaves(status, progress, arts) ==
    /\ client.saves < MaxSaves
    /\ client' = [client EXCEPT
                 !.doc = SaveCheckpoint(client.doc, status, progress, 0, 0, arts,
                                        UtcNow(client.saves + 1)),
                 !.saves = @ + 1, !.last = "save",
                 !.status = status, !.progress = progress,
                 !.latest = LatestArtifacts(@, arts),
                 !.records = UpdateOneUpsert(@),
                 !.before = client.doc,
                 !.args = Some(<<status, progress, arts>>),
                 !.replayed = (client.last = "save"
                               /\ client.args = Some(<<status, progress, arts>>))]
    /\ UNCHANGED <<filt, srch, qry, outl, chapOut, orchVars, indexVars, idVars, moreVars>>

\* delete_checkpoint(repo_id)
ClientDeletes ==
    /\ client.doc.exists
    /\ client' = [client EXCEPT !.doc = DeleteCheckpoint(client.doc), !.last = "delete",
                          !.latest = NoArtifacts, !.records = DeleteOne(@),
                          !.args = None, !.replayed = FALSE]
    /\ UNCHANGED <<filt, srch, qry, outl, chapOut, orchVars, indexVars, idVars, moreVars>>

\* get_checkpoint(repo_id)
ClientGets ==
    /\ client.last # "get"
    /\ client' = [client EXCEPT !.got = GetCheckpoint(client.doc), !.last = "get",
                          !.replayed = FALSE]
    /\ UNCHANGED <<filt, srch, qry, outl, chapOut, orchVars, indexVars, idVars, moreVars>>

InitStore == Init /\ collection = "ok"

NextStore ==
    \/ \E status \in SavedStatuses, progress \in SavedProgress, arts \in SavedArtifacts :
          ClientSaves(status, progress, arts)
    \/ ClientDeletes
    \/ ClientGets

SpecStore == InitStore /\ [][NextStore]_vars

\* C20 (as claimed): after successful saves with no delete in between,
\* get_checkpoint returns a checkpoint with the status and progress of the
\* last save and the most recently saved non-empty artifacts; it returns
\* nothing only when no record exists.
C20_GetReturnsLatestSnapshot ==
    client.last = "get" =>
        /\ client.got = None => ~client.doc.exists
        /\ client.doc.exists =>
              /\ client.got # None
              /\ Get(client.got).status = client.status
              /\ Get(client.got).progress = client.progress
              /\ Get(client.got).repo_files = client.latest.repo_files
              /\ Get(client.got).chapters = client.latest.chapters
              /\ Get(client.got).index_path = client.latest.index_path


\* C21: a save_checkpoint call that repeats the arguments of the call just
\* before it leaves exactly one record for the repo_id, with the status,
\* progress, artifacts and started_at the first of the two calls left.
C21_ReplayedSaveIsIdempotent ==
    client.replayed =>
        /\ client.records = 1 /\ client.doc.exists /\ client.before.exists
        /\ client.doc.status = client.before.status
        /\ client.doc.progress = client.before.progress
        /\ client.doc.repo_files = client.before.repo_files
        /\ client.doc.chapters = client.before.chapters
        /\ client.doc.index_path = client.before.index_path
        /\ client.doc.started_at = client.before.started_at

\* a save was replayed on a record that earlier saves had filled with
\* artifacts the replayed call does not carry
C21_ReplayOverEarlierArtifacts ==
    /\ client.replayed /\ client.saves = 3
    /\ Get(client.args)[3] = NoArtifacts
    /\ client.doc.index_path # None
    /\ client.doc.last_updated # client.before.last_updated


EnvValues == {None, Some(""), Some("custom-model")}

\* settings.LM_STUDIO_EMBED_MODEL: os.getenv with a default
DefaultEmbedModel == "qwen-2.5-1.5b-embedding-entropy-rl-1"
SettingsEmbedModel(env) == IF env = None THEN DefaultEmbedModel ELSE Get(env)

\* model ids a catalog may list, and "embed" in id.lower()
ModelIds == {"chat-model", "text-embedding-model", "Nomic-Embed-v1"}
ContainsEmbed(id) == id \in {"text-embedding-model", "Nomic-Embed-v1"}

\* GET /models: the answer's status and the ids under "data"
Catalogs == [status : {"200", "503", "unreachable"},
             models : UNION {[1..n -> ModelIds] : n \in 0..MaxCatalog}]

\* seeded fault: the first cataloged model, whatever its id
DetectEmbeddingModelAny(env, catalog) ==
    IF env # None /\ Get(env) # "" THEN env
    ELSE IF SettingsEmbedModel(env) # "" THEN Some(SettingsEmbedModel(env))
    ELSE IF catalog.status # "200" THEN None
    ELSE IF catalog.models # <<>> THEN Some(Head(catalog.models))
    ELSE None

\* LMStudioEmbedder._detect_embedding_model
DetectEmbeddingModel(env, catalog) ==
    IF env # None /\ Get(env) # "" THEN env
    ELSE IF SettingsEmbedModel(env) # "" THEN Some(SettingsEmbedModel(env))
    ELSE IF catalog.status # "200" THEN None
    ELSE LET embedding_models == SelectSeq(catalog.models, ContainsEmbed) IN
         IF embedding_models # <<>> THEN Some(Head(embedding_models))
         ELSE IF catalog.models # <<>> THEN Some(Head(catalog.models))
         ELSE None

\* LMStudioEmbedder.__init__
NewEmbedder(env, catalog) ==
    /\ emb.pc = "new"
    /\ emb' = [emb EXCEPT !.pc = "ready", !.env = env, !.catalog = catalog,
                          !.model = DetectEmbeddingModel(env, catalog)]
    /\ UNCHANGED <<rag, sse, chk, orchVars, indexVars, idVars, compVars>>

\* texts handed to embed_texts; not text.strip() holds of the first
Texts == {"  ", "alpha", "beta"}
IsBlank(text) == text = "  "
NonBlank(text) == ~IsBlank(text)

\* the vector the endpoint computes for a text
EmbeddingOf(text) == [of |-> text]

\* the outer loop of embed_texts: the next text at or after position i that is
\* not blank, Len(texts) + 1 when there is none
RECURSIVE NextText(_, _)
NextText(texts, i) ==
    IF i > Len(texts) THEN i
    ELSE IF IsBlank(texts[i]) THEN NextText(texts, i + 1)
    ELSE i

\* max_retries of embed_texts, and Retry(total=3) of the session's adapter
max_retries == 3
RetryTotal == 3

\* the answers to one POST /embeddings
Responses == {"ok", "no_data", "429", "503", "404", "timeout", "connection_error"}
\* what the adapter's Retry re-sends by itself: status_forcelist, and the
\* connect and read errors of an allowed method (POST)
AdapterRetried == {"429", "503", "timeout", "connection_error"}

\* time.sleep(2 ** attempt)
RECURSIVE Backoff(_)
Backoff(attempt) == IF attempt = 0 THEN 1 ELSE 2 * Backoff(attempt - 1)

\* the payload of a request: the model field only when a model is set
Payload(text, model) == [input |-> text, model |-> model]

\* embed_texts is entered: [] for no texts; RuntimeError when the connection
\* check fails; else the loop starts at the first text that is not blank.
\* A call keeps nothing of the calls before it but self.model, so one call per
\* embedder is followed.
EmbedTexts(texts, conn_ok) ==
    /\ emb.pc = "ready"
    /\ LET first == NextText(texts, 1)
           fresh == [emb EXCEPT !.texts = texts, !.i = 0, !.attempt = 0,
                                !.retries = 0, !.embeddings = <<>>,
                                !.requests = 0, !.sleeps = <<>>,
                                !.payload = None, !.error = None,
                                !.checked = FALSE, !.calls = 1]
       IN emb' = IF texts = <<>> THEN [fresh EXCEPT !.pc = "returned"]
                 ELSE IF ~conn_ok
                 THEN [fresh EXCEPT !.pc = "raised", !.checked = TRUE,
                                    !.error = Some("cannot_connect")]
                 ELSE IF first > Len(texts)
                 THEN [fresh EXCEPT !.pc = "returned", !.checked = TRUE,
                                    !.i = first]
                 ELSE [fresh EXCEPT !.pc = "posting", !.checked = TRUE,
                                    !.i = first]
    /\ UNCHANGED <<rag, sse, chk, orchVars, indexVars, idVars, compVars>>

\* one more request for the text being embedded
CountRequest(e) == [e EXCEPT !.requests = @ + 1,
                             !.payload = Some(Payload(e.texts[e.i], e.model))]

\* the vector is appended and the loop goes to the next text that is not blank
AppendVector(e) ==
    LET next == NextText(e.texts, e.i + 1) IN
    [e EXCEPT !.embeddings = Append(@, EmbeddingOf(e.texts[e.i])),
              !.i = next, !.attempt = 0, !.retries = 0,
              !.requests = 0, !.sleeps = <<>>,
              !.pc = IF next > Len(e.texts) THEN "returned" ELSE "posting"]

\* seeded fault: after the last attempt the text is given up and the loop
\* goes on
AttemptFailedSkipping(e, err) ==
    IF e.attempt < max_retries - 1
    THEN [e EXCEPT !.attempt = @ + 1, !.retries = 0,
                   !.sleeps = Append(@, Backoff(e.attempt))]
    ELSE LET next == NextText(e.texts, e.i + 1) IN
         [e EXCEPT !.i = next, !.attempt = 0, !.retries = 0,
                   !.requests = 0, !.sleeps = <<>>,
                   !.pc = IF next > Len(e.texts) THEN "returned" ELSE "posting"]

\* the except clauses for Timeout, ConnectionError and Exception: sleep and
\* try again, or raise RuntimeError after the last attempt
AttemptFailed(e, err) ==
    IF e.attempt < max_retries - 1
    THEN [e EXCEPT !.attempt = @ + 1, !.retries = 0,
                   !.sleeps = Append(@, Backoff(e.attempt))]
    ELSE [e EXCEPT !.pc = "raised", !.error = Some(err)]

\* one request of session.post: the adapter re-sends by itself up to RetryTotal
\* times, then raises into the attempt loop of embed_texts; a status outside
\* the forcelist reaches raise_for_status, and HTTPError is raised at once
SendRequest(resp) ==
    /\ emb.pc = "posting"
    /\ LET e == CountRequest(emb) IN
       emb' = IF resp = "ok" THEN AppendVector(e)
              ELSE IF resp = "no_data" THEN AttemptFailed(e, "invalid_response")
              ELSE IF resp \in AdapterRetried
              THEN IF e.retries < RetryTotal
                   THEN [e EXCEPT !.retries = @ + 1]
                   ELSE AttemptFailed(e, "retries_exhausted")
              ELSE [e EXCEPT !.pc = "raised", !.error = Some("http_error")]
    /\ UNCHANGED <<rag, sse, chk, orchVars, indexVars, idVars, compVars>>

\* SpecDiscover: an embedder is constructed against any catalog and embeds
\* one text
InitDiscover == Init

NextDiscover ==
    \/ \E env \in EnvValues, catalog \in Catalogs : NewEmbedder(env, catalog)
    \/ EmbedTexts(<<"alpha">>, TRUE)
    \/ \E resp \in Responses : SendRequest(resp)

SpecDiscover == InitDiscover /\ [][NextDiscover]_vars

\* SpecEmbed: an embedder constructed while the endpoint is down embeds lists
\* of texts
NoCatalog == [status |-> "unreachable", models |-> <<>>]
InitEmbed == Init

NextEmbed ==
    \/ \E env \in EnvValues : NewEmbedder(env, NoCatalog)
    \/ \E texts \in SeqsUpTo(Texts, MaxTexts), conn_ok \in BOOLEAN :
          EmbedTexts(texts, conn_ok)
    \/ \E resp \in Responses : SendRequest(resp)

SpecEmbed == InitEmbed /\ [][NextEmbed]_vars

\* C23 (as claimed): the embedder's model is the configured one (environment
\* variable or settings value) when there is one; otherwise the first
\* cataloged id containing "embed"; otherwise the model is unset, and requests
\* then carry no model field.
C23_ModelDiscoveryOrder ==
    emb.pc # "new" =>
        LET configured == SettingsEmbedModel(emb.env) # ""
            listed == IF emb.catalog.status = "200"
                      THEN SelectSeq(emb.catalog.models, ContainsEmbed)
                      ELSE <<>>
        IN /\ configured => emb.model = Some(SettingsEmbedModel(emb.env))
           /\ (~configured /\ listed # <<>>) => emb.model = Some(Head(listed))
           /\ (~configured /\ listed = <<>>) => emb.model = None
           /\ (emb.payload # None /\ emb.model = None)
                 => Get(emb.payload).model = None

\* the vectors of the texts that are not blank, in the order of the texts
VectorsOf(texts) ==
    LET kept == SelectSeq(texts, NonBlank) IN
    [k \in 1..Len(kept) |-> EmbeddingOf(kept[k])]

AllBlank(texts) == \A k \in 1..Len(texts) : IsBlank(texts[k])

\* C24 (amended): embed_texts returns exactly one vector per non-blank text,
\* in input order, skipping blank texts; it returns an empty list for an empty
\* input, and for an all-blank input once the connection check has passed;
\* it never returns a shorter list: a text that cannot be embedded, or a failed
\* connection check on a non-empty input, makes it raise.
C24_OneVectorPerNonBlankText ==
    emb.calls > 0 =>
        /\ emb.pc = "returned" => emb.embeddings = VectorsOf(emb.texts)
        /\ emb.pc = "posting" =>
              emb.embeddings = VectorsOf(SubSeq(emb.texts, 1, emb.i - 1))
        /\ emb.pc = "raised" => emb.error # None
        /\ emb.texts = <<>> => (emb.pc = "returned" /\ ~emb.checked)
        /\ (emb.texts # <<>> /\ AllBlank(emb.texts)) =>
              \/ emb.pc = "returned" /\ emb.embeddings = <<>>
              \/ emb.pc = "raised" /\ emb.error = Some("cannot_connect")

\* two texts around a blank one were embedded, the second after a failed attempt
C24_BlankSkippedBetweenTwoVectors ==
    /\ emb.pc = "returned"
    /\ emb.texts = <<"beta", "  ", "alpha">>
    /\ emb.embeddings = <<EmbeddingOf("beta"), EmbeddingOf("alpha")>>
    /\ emb.payload = Some(Payload("alpha", emb.model))

\* C24 (as claimed): as above, and an all-blank input always yields the empty
\* list.
C24_AllBlankAlwaysReturnsEmpty ==
    (emb.calls > 0 /\ AllBlank(emb.texts)) =>
        (emb.pc = "returned" /\ emb.embeddings = <<>>)

\* C28 (as claimed): embed_texts sends at most 3 requests for a text, the
\* waits between them doubling (1, 2), and a call that raised for retries
\* exhausted had sent exactly 3.
C28_AtMostThreeRequestsPerText ==
    /\ emb.requests <= max_retries
    /\ \A k \in 1..Len(emb.sleeps) : emb.sleeps[k] = Backoff(k - 1)
    /\ Len(emb.sleeps) <= max_retries - 1
    /\ (emb.pc = "raised" /\ emb.error = Some("retries_exhausted"))
          => emb.requests = max_retries

(***************************************************************************)
(* Chunk ids (specification SpecIndex).                                    *)
(***************************************************************************)
\* every chunk_id of a metadata list equals its (0-based) position
IdsArePositions(meta) == \A i \in 1..Len(meta) : meta[i] = i - 1

\* C27: after build_repo_index and any vectorize_file calls on the index,
\* every chunk's chunk_id equals its position in the metadata list, in memory
\* and in the sidecar (so ids are unique and new chunks are numbered from the
\* current length), and a write of the sidecar leaves the ids of the chunks it
\* already held unchanged.
C27_ChunkIdsArePositions ==
    /\ [](IdsArePositions(memMeta) /\ IdsArePositions(LoadMetadata(diskMeta)))
    /\ [][(diskMeta # None /\ diskMeta' # diskMeta)
             => /\ Len(Get(diskMeta')) >= Len(Get(diskMeta))
                /\ SubSeq(Get(diskMeta'), 1, Len(Get(diskMeta))) = Get(diskMeta)]_vars

\* vectorize_file has extended a built index twice and the sidecar is written
C27_IndexExtendedByVectorizeFile ==
    /\ ipc = "idle" /\ diskMeta # None
    /\ Len(Get(diskMeta)) = 4 /\ diskIndex = Some(4)


max_context_tokens == 5000
ResponseOverhead == 500

\* _estimate_tokens of "[chunk_id] text" for the chunks that may be selected,
\* and of system_prompt plus question
ChunkTokens == {1500, 3000, 6000}
PromptTokens == {0, 2500, 5000}

\* _split_chunks_by_token_limit: the batches, as sequences of chunk positions
RECURSIVE SplitChunks(_, _, _, _, _, _)
SplitChunks(tokens, n, available_tokens, batches, current_batch, current_tokens) ==
    IF n > Len(tokens)
    THEN IF current_batch # <<>> THEN Append(batches, current_batch) ELSE batches
    ELSE IF current_tokens + tokens[n] > available_tokens /\ current_batch # <<>>
         THEN SplitChunks(tokens, n + 1, available_tokens,
                          Append(batches, current_batch), <<n>>, tokens[n])
         ELSE SplitChunks(tokens, n + 1, available_tokens, batches,
                          Append(current_batch, n), current_tokens + tokens[n])

SplitChunksByTokenLimit(tokens, max_tokens, prompt_tokens) ==
    SplitChunks(tokens, 1, max_tokens - (prompt_tokens + ResponseOverhead),
                <<>>, <<>>, 0)

\* one chat completion request
ChatCall(stream, part) == [stream |-> stream, part |-> part]

\* query, once the chunks are selected: the context is measured; above the
\* limit _query_multipart splits it, else one generator is returned at once
QueryChat(tokens, prompt_tokens) ==
    /\ rag.pc = "idle"
    /\ tokens # <<>>
    /\ LET multipart == SumOf(tokens) > max_context_tokens
           batches == IF multipart
                      THEN SplitChunksByTokenLimit(tokens, max_context_tokens,
                                                   prompt_tokens)
                      ELSE <<>>
       IN rag' = [pc |-> IF multipart THEN "batches" ELSE "returned",
                  multipart |-> multipart, tokens |-> tokens,
                  batches |-> batches, calls |-> <<>>,
                  partial_responses |-> <<>>, streamed |-> "not_started"]
    /\ UNCHANGED <<emb, sse, chk, orchVars, indexVars, idVars, compVars>>

\* seeded fault: a batch whose call failed is sent again
PartialResponsesRetrying(responses, part, ok) ==
    IF ok THEN Append(responses, [part |-> part, ok |-> ok]) ELSE responses

\* partial_responses after the call for a batch: the answer, or the
\* "[Error processing part i]" placeholder when the call raised
PartialResponses(responses, part, ok) ==
    Append(responses, [part |-> part, ok |-> ok])

\* one iteration of the batch loop of _query_multipart: _call_chat_non_stream
\* for the next batch; after the last batch the generator is returned
CallChatNonStream(ok) ==
    /\ rag.pc = "batches"
    /\ LET part == Len(rag.partial_responses) + 1
           responses == PartialResponses(rag.partial_responses, part, ok)
       IN rag' = [rag EXCEPT
                     !.calls = Append(@, ChatCall(FALSE, part)),
                     !.partial_responses = responses,
                     !.pc = IF Len(responses) = Len(rag.batches)
                            THEN "returned" ELSE "batches"]
    /\ UNCHANGED <<emb, sse, chk, orchVars, indexVars, idVars, compVars>>

\* the caller iterates the generator query returned: _call_chat_stream posts
\* the synthesis (or the single) request on the first next()
ConsumeStream(ok) ==
    /\ rag.pc = "returned"
    /\ rag.streamed = "not_started"
    /\ rag' = [rag EXCEPT !.calls = Append(@, ChatCall(TRUE, 0)),
                          !.streamed = IF ok THEN "streamed" ELSE "raised"]
    /\ UNCHANGED <<emb, sse, chk, orchVars, indexVars, idVars, compVars>>

InitRag == Init

NextRag ==
    \/ \E tokens \in SeqsUpTo(ChunkTokens, MaxSelected), prompt_tokens \in PromptTokens :
          QueryChat(tokens, prompt_tokens)
    \/ \E ok \in BOOLEAN : CallChatNonStream(ok)
    \/ \E ok \in BOOLEAN : ConsumeStream(ok)

SpecRag == InitRag /\ [][NextRag]_vars

\* C25: on the multipart path with N batches, the chat calls issued are the
\* non-streaming calls for batches 1..N in that order, followed by at most
\* one streaming call, which is issued only after all N; nothing else is sent.
C25_BatchCallsThenOneStreamingCall ==
    (rag.pc # "idle" /\ rag.multipart) =>
        LET N == Len(rag.batches) IN
        /\ N >= 1
        /\ Len(rag.calls) <= N + 1
        /\ \A k \in 1..Len(rag.calls) :
              IF k <= N THEN rag.calls[k] = ChatCall(FALSE, k)
              ELSE rag.calls[k] = ChatCall(TRUE, 0)
        /\ rag.pc = "returned" => Len(rag.calls) >= N
        /\ rag.streamed # "not_started" => Len(rag.calls) = N + 1

\* three batches were sent, the second call failed, and the synthesis was
\* streamed afterwards
C25_ThreeBatchesThenSynthesis ==
    /\ rag.pc = "returned" /\ rag.multipart
    /\ Len(rag.batches) = 3 /\ Len(rag.calls) = 4
    /\ ~rag.partial_responses[2].ok
    /\ rag.streamed = "streamed"

(***************************************************************************)
(* Specification SpecStream: generate() of the chat endpoint, one upstream  *)
(* line per step, and the frames of the SSE response.                      *)
(***************************************************************************)
\* lines the stream generator may hand over: a delta with content, a delta
\* whose content is empty (or empty after cleaning), the [DONE] marker, a
\* "data: " line that is not JSON, and lines outside the SSE format (JSON with
\* content, other text)
UpstreamLines == {"data_content", "data_empty", "data_done", "data_not_json",
                  "json_content", "text"}

\* the frames generate() yields for one upstream line
FramesFor(line) ==
    CASE line = "data_content" -> <<"content">>
      [] line = "data_empty" -> <<>>
      [] line = "data_done" -> <<"done">>
      [] line = "data_not_json" -> <<"passthrough">>
      [] line = "json_content" -> <<"content">>
      [] line = "text" -> <<"content">>

\* the response starts: generate() is entered over the generator of query
StartStream ==
    /\ sse.pc = "idle"
    /\ sse' = [pc |-> "streaming", upstream |-> <<>>, out |-> <<>>]
    /\ UNCHANGED <<emb, rag, chk, orchVars, indexVars, idVars, compVars>>

\* one iteration of the loop over stream_generator
UpstreamLine(line) ==
    /\ sse.pc = "streaming"
    /\ Len(sse.upstream) < MaxLines
    /\ sse' = [sse EXCEPT !.upstream = Append(@, line),
                          !.out = @ \o FramesFor(line)]
    /\ UNCHANGED <<emb, rag, chk, orchVars, indexVars, idVars, compVars>>

\* the generator is exhausted: the message is saved and [DONE] is yielded
UpstreamEnds ==
    /\ sse.pc = "streaming"
    /\ sse' = [sse EXCEPT !.pc = "finished", !.out = Append(@, "done")]
    /\ UNCHANGED <<emb, rag, chk, orchVars, indexVars, idVars, compVars>>

\* the generator raises (the chat call failed): an error frame ends the
\* response
UpstreamRaises ==
    /\ sse.pc = "streaming"
    /\ sse' = [sse EXCEPT !.pc = "failed", !.out = Append(@, "error")]
    /\ UNCHANGED <<emb, rag, chk, orchVars, indexVars, idVars, compVars>>

InitStream == Init

NextStream ==
    \/ StartStream
    \/ \E line \in UpstreamLines : UpstreamLine(line)
    \/ UpstreamEnds
    \/ UpstreamRaises

SpecStream == InitStream /\ [][NextStream]_vars

\* C29 (as claimed): no frame follows a [DONE] frame, and a response whose
\* streaming succeeded holds exactly one [DONE] frame, its last.
C29_ExactlyOneDoneFrameLast ==
    /\ \A k \in 1..Len(sse.out) : sse.out[k] = "done" => k = Len(sse.out)
    /\ sse.pc = "finished" =>
          /\ sse.out # <<>>
          /\ sse.out[Len(sse.out)] = "done"

(***************************************************************************)
(* Specification SpecChunk: chunk_text.  A text is given by the pieces that *)
(* re.split(r'[.!?]\s+') cuts it into, each piece by its number of words.   *)
(***************************************************************************)
\* the texts: at least one piece (a text without a sentence boundary is one
\* piece); a piece of 0 words is blank
TextPieces == SeqsUpTo(0..MaxWords, MaxPieces) \ {<<>>}

\* the sentences: the pieces that are not blank
Sentences(pieces) == SelectSeq(pieces, LAMBDA n : n > 0)

\* len(text.split()): the words of the pieces; when every piece is blank the
\* only words are the punctuation marks of the boundaries
WordsOf(pieces) ==
    IF Sentences(pieces) = <<>> THEN Len(pieces) - 1 ELSE SumOf(pieces)

\* a chunk: the words start+1 .. end of the text that it joins
Window(start, end) == [start |-> start, end |-> end]

\* the word-based fallback loop, from start on
RECURSIVE WordWindows(_, _, _, _)
WordWindows(words, start, chunk_size, overlap) ==
    IF start >= words THEN <<>>
    ELSE LET end == Min(words, start + chunk_size) IN
         IF end = words THEN <<Window(start, end)>>
         ELSE <<Window(start, end)>> \o WordWindows(words, end - overlap, chunk_size, overlap)

\* words of the sentences before sentence s
RECURSIVE WordsBefore(_, _)
WordsBefore(sentences, s) ==
    IF s <= 1 THEN 0 ELSE sentences[s - 1] + WordsBefore(sentences, s - 1)

\* the overlap loop: the first sentence kept when the chunk lo..hi is closed,
\* going back from hi while the kept words fit in overlap
RECURSIVE OverlapStart(_, _, _, _, _)
OverlapStart(sentences, lo, s, overlap_size, overlap) ==
    IF s < lo THEN lo
    ELSE IF overlap_size + sentences[s] <= overlap
         THEN OverlapStart(sentences, lo, s - 1, overlap_size + sentences[s], overlap)
         ELSE s + 1

\* the sentence loop from sentence s on; the current chunk holds the
\* sentences lo..s-1
RECURSIVE SentenceChunks(_, _, _, _, _)
SentenceChunks(sentences, s, lo, chunk_size, overlap) ==
    LET current_size == WordsBefore(sentences, s) - WordsBefore(sentences, lo)
        closed == Window(WordsBefore(sentences, lo), WordsBefore(sentences, s))
    IN IF s > Len(sentences)
       THEN IF lo < s THEN <<closed>> ELSE <<>>
       ELSE IF current_size + sentences[s] > chunk_size /\ lo < s
            THEN <<closed>> \o
                 SentenceChunks(sentences, s + 1,
                                OverlapStart(sentences, lo, s - 1, 0, overlap),
                                chunk_size, overlap)
            ELSE SentenceChunks(sentences, s + 1, lo, chunk_size, overlap)

\* seeded fault: the word windows are used whenever the text has one piece
ChunkTextByWords(pieces, chunk_size, overlap) ==
    IF Len(pieces) = 1 \/ Sentences(pieces) = <<>>
    THEN WordWindows(WordsOf(pieces), 0, chunk_size, overlap)
    ELSE SentenceChunks(Sentences(pieces), 1, 1, chunk_size, overlap)

\* chunk_text(text, chunk_size, overlap)
ChunkText(pieces, chunk_size, overlap) ==
    IF Sentences(pieces) = <<>>
    THEN WordWindows(WordsOf(pieces), 0, chunk_size, overlap)
    ELSE SentenceChunks(Sentences(pieces), 1, 1, chunk_size, overlap)

\* a caller chunks a text
ChunkTextCall(pieces, chunk_size, overlap) ==
    /\ chk' = [pc |-> "returned", pieces |-> pieces, chunk_size |-> chunk_size,
               overlap |-> overlap,
               chunks |-> ChunkText(pieces, chunk_size, overlap)]
    /\ UNCHANGED <<emb, rag, sse, orchVars, indexVars, idVars, compVars>>

InitChunk == Init

NextChunk ==
    \E pieces \in TextPieces, chunk_size \in 1..MaxChunkSize :
       \E overlap \in 0..(chunk_size - 1) : ChunkTextCall(pieces, chunk_size, overlap)

SpecChunk == InitChunk /\ [][NextChunk]_vars

\* C30 (as claimed): for a text without a sentence boundary, the chunks are
\* word windows of at most chunk_size words, each window after the first
\* starting overlap words before the end of the one before it, and together
\* they cover every word of the text.
C30_WordWindowsWithoutBoundary ==
    (chk.pc = "returned" /\ Len(chk.pieces) = 1) =>
        LET words == chk.pieces[1]
            chunks == chk.chunks
        IN /\ \A k \in 1..Len(chunks) :
                 /\ chunks[k].end - chunks[k].start <= chk.chunk_size
                 /\ chunks[k].end > chunks[k].start
           /\ \A j \in 2..Len(chunks) :
                 chunks[j].start = chunks[j - 1].end - chk.overlap
           /\ words > 0 => /\ chunks # <<>>
                           /\ chunks[1].start = 0
                           /\ chunks[Len(chunks)].end = words
           /\ words = 0 => chunks = <<>>
====
